---- MODULE Spec2Model ----
(***************************************************************************)
(* Transcript-to-trace span compiler of the Claude Code hook               *)
(* (src/example_scripts/python/claude_code/keywordsai_hook.py).            *)
(*                                                                         *)
(* Python values are modelled as tagged records:                           *)
(*   an optional value      Absent / Some(v)                               *)
(*   a message content      [kind: "none" | "str" | "list", ...]           *)
(*   a content block        [type: "text" | "thinking" | "tool_use" |      *)
(*                           "tool_result" | "image" | "str", ...]         *)
(*   a JSON number field    [k: "absent" | "null" | "str" | "num", ...]    *)
(*   a timestamp            [k: "none" | "bad" | "ok" | "now", ...]        *)
(* A Python exception is the outcome "raised" of the operator that models  *)
(* the function.                                                           *)
(***************************************************************************)
EXTENDS Integers, Sequences, FiniteSets, TLC

VARIABLES
    log,        \* the transcript file: the sequence of its lines
    store,      \* the state file: session entry (last_line, turn_count) or none
    sent,       \* every POST made so far, in order
    last,       \* summary of the most recent invocation
    arg,        \* input of the pure function under study
    res,        \* its result
    pc          \* position of the invocation / function under study

vars == <<log, store, sent, last, arg, res, pc>>

----------------------------------------------------------------------------
(* The value of F at e, with e evaluated once *)
Bind(e, F(_)) == CHOOSE r \in {F(x) : x \in {e}} : TRUE

(* Optional values *)

Absent == [has |-> FALSE]
Some(v) == [has |-> TRUE, v |-> v]

(* Message contents *)
CNone == [kind |-> "none"]
CStr(s) == [kind |-> "str", str |-> s]
CList(b) == [kind |-> "list", blocks |-> b]

(* Content blocks *)
TextB(t) == [type |-> "text", text |-> t]
ThinkB(t) == [type |-> "thinking", thinking |-> t]
ToolUseB(id, name, input) == [type |-> "tool_use", id |-> id, name |-> name, input |-> input]
ToolResB(id, content) == [type |-> "tool_result", tool_use_id |-> id, content |-> content]
ImageB == [type |-> "image"]
StrItem(t) == [type |-> "str", text |-> t]

(* JSON number fields *)
NAbsent == [k |-> "absent"]
NNull == [k |-> "null"]
NStr == [k |-> "str"]
Num(n) == [k |-> "num", v |-> n]

(* Timestamps: an ISO string that parses to second t, one that does not    *)
(* parse, or none; tz tells whether the string carries a UTC offset        *)
TsNone == [k |-> "none"]
TsBad == [k |-> "bad"]
Ts(t) == [k |-> "ok", t |-> t, tz |-> TRUE]
TsNaive(t) == [k |-> "ok", t |-> t, tz |-> FALSE]
TsNow == [k |-> "now"]

(* An id that is not hashable (a JSON list) *)
Unhashable == "#list"

----------------------------------------------------------------------------
(* A parsed line (a JSON object).  msg tells whether the "message" key is  *)
(* absent, an object, or something else; content is message.content when   *)
(* message is an object and the top-level content otherwise.               *)

Obj(type, msg, role, id, content, ts, usage, tur) ==
    [json |-> "object", type |-> type, msg |-> msg, role |-> role, id |-> id,
     content |-> content, ts |-> ts, usage |-> usage, tur |-> tur,
     model |-> Absent, requestId |-> Absent, stop_reason |-> Absent]

UsageNone == [kind |-> "none"]
UsageNonMap == [kind |-> "nonmap"]
Usage(i, o, cc, cr) ==
    [kind |-> "map", input_tokens |-> i, output_tokens |-> o,
     cache_creation_input_tokens |-> cc, cache_read_input_tokens |-> cr,
     service_tier |-> Absent]

TurNone == [kind |-> "none"]
TurInt == [kind |-> "int"]
Tur(d) == [kind |-> "map", durationMs |-> d, numFiles |-> Absent,
           filenames |-> Absent, truncated |-> Absent]

BlankLine == [json |-> "blank"]
InvalidLine == [json |-> "invalid"]
ValueLine == [json |-> "value"]

----------------------------------------------------------------------------
(* get_content: raises AttributeError when "message" is present and is not *)
(* an object                                                               *)

GetContentRaises(msg) == msg.msg = "other"

get_content(msg) == msg.content

(* Mutant: no user record is a tool result *)
is_tool_result_never(msg) == FALSE

is_tool_result(msg) ==
    LET content == get_content(msg)
    IN  /\ content.kind = "list"
        /\ \E i \in 1..Len(content.blocks) : content.blocks[i].type = "tool_result"

get_tool_calls(msg) ==
    LET content == get_content(msg)
    IN  IF content.kind = "list"
        THEN SelectSeq(content.blocks, LAMBDA item : item.type = "tool_use")
        ELSE <<>>

RECURSIVE JoinLines(_)
JoinLines(parts) ==
    IF parts = <<>> THEN ""
    ELSE IF Len(parts) = 1 THEN parts[1]
    ELSE parts[1] \o "\n" \o JoinLines(Tail(parts))

RECURSIVE TextParts(_)
TextParts(blocks) ==
    IF blocks = <<>> THEN <<>>
    ELSE LET item == Head(blocks)
         IN  (IF item.type \in {"text", "str"} THEN <<item.text>> ELSE <<>>)
             \o TextParts(Tail(blocks))

get_text_content(msg) ==
    LET content == get_content(msg)
    IN  IF content.kind = "str" THEN content.str
        ELSE IF content.kind = "list" THEN JoinLines(TextParts(content.blocks))
        ELSE ""

----------------------------------------------------------------------------
(* merge_assistant_parts *)

PartBlocks(part) ==
    LET content == get_content(part)
    IN  IF content.kind = "list" THEN content.blocks
        ELSE IF content.kind = "str" /\ content.str # "" THEN <<TextB(content.str)>>
        ELSE <<>>

RECURSIVE MergedContent(_)
MergedContent(parts) ==
    IF parts = <<>> THEN <<>>
    ELSE PartBlocks(Head(parts)) \o MergedContent(Tail(parts))

(* Mutant: the structure of the last part is used *)
MergeBaseLast(parts) == parts[Len(parts)]

MergeBase(parts) == parts[1]

merge_assistant_parts(parts) ==
    [MergeBase(parts) EXCEPT !.content = CList(MergedContent(parts))]

----------------------------------------------------------------------------
(* Tool inputs and outputs *)

FcAbsent == [k |-> "absent"]
FcStr(s) == [k |-> "str", s |-> s]
FcNum == [k |-> "num"]

InEmpty == [kind |-> "empty"]
InDict(path, content, command, dump) ==
    [kind |-> "dict", file_path |-> path, content |-> content,
     command |-> command, dump |-> dump]
InOther(dump) == [kind |-> "other", dump |-> dump]

OutNone == [kind |-> "none"]
OutStr(s) == [kind |-> "str", str |-> s]
OutList(items) == [kind |-> "list", items |-> items]
OutDict(success, message, dump) ==
    [kind |-> "dict", success |-> success, message |-> message, dump |-> dump]
OtherB(repr) == [type |-> "other", repr |-> repr]

(* Mutant: one more character passes through *)
MaxLengthPlusOne == 4000 + 1

max_length == 4000
ContentPreviewLen == 2000
MinRemaining == 100
OtherItemLen == 500

TruncMarker == "\n... (truncated)"
ListTruncMarker == "... (truncated)"

Take(s, n) == IF Len(s) > n THEN SubSeq(s, 1, n) ELSE s

(* json.dumps(x, indent=2) of a tool input or output: the value carries    *)
(* its own rendering                                                       *)
JsonDumps(x) == x.dump

DumpCapped(x) ==
    LET result == JsonDumps(x)
    IN  IF Len(result) > max_length
        THEN SubSeq(result, 1, max_length) \o TruncMarker
        ELSE result

IsFileTool(tool_name) == tool_name \in {"Write", "Edit", "MultiEdit"}

(* len() of a number raises TypeError *)
FormatToolInputRaises(tool_name, tool_input) ==
    /\ tool_input.kind = "dict"
    /\ IsFileTool(tool_name)
    /\ tool_input.content.k = "num"

format_tool_input(tool_name, tool_input) ==
    IF tool_input.kind = "empty" THEN ""
    ELSE IF IsFileTool(tool_name) /\ tool_input.kind = "dict"
    THEN LET content == tool_input.content
             result == "File: " \o tool_input.file_path \o "\n"
             content_preview ==
                 IF Len(content.s) > ContentPreviewLen
                 THEN SubSeq(content.s, 1, ContentPreviewLen) \o "..."
                 ELSE content.s
         IN  IF content.k = "str" /\ content.s # ""
             THEN Take(result \o "Content:\n" \o content_preview, max_length)
             ELSE Take(result, max_length)
    ELSE IF tool_name = "Read" /\ tool_input.kind = "dict"
    THEN "File: " \o tool_input.file_path
    ELSE IF tool_name \in {"Bash", "Shell"} /\ tool_input.kind = "dict"
    THEN "Command: " \o tool_input.command
    ELSE DumpCapped(tool_input)

(* The loop over a list output: parts collected so far and total_length *)
RECURSIVE OutputParts(_, _, _)
OutputParts(items, parts, total_length) ==
    IF items = <<>> THEN parts
    ELSE LET item == Head(items)
             rest == Tail(items)
         IN  IF item.type \in {"text", "str"}
             THEN IF total_length + Len(item.text) > max_length
                  THEN LET remaining == max_length - total_length
                       IN  IF remaining > MinRemaining
                           THEN Append(parts, SubSeq(item.text, 1, remaining)
                                              \o ListTruncMarker)
                           ELSE parts
                  ELSE OutputParts(rest, Append(parts, item.text),
                                   total_length + Len(item.text))
             ELSE IF item.type = "image"
             THEN OutputParts(rest, Append(parts, "[Image output]"), total_length)
             ELSE LET text == Take(item.repr, OtherItemLen)
                  IN  OutputParts(rest, Append(parts, text), total_length + Len(text))

OutputFalsy(tool_output) ==
    \/ tool_output.kind = "none"
    \/ tool_output.kind = "str" /\ tool_output.str = ""
    \/ tool_output.kind = "list" /\ tool_output.items = <<>>

format_tool_output(tool_name, tool_output) ==
    IF OutputFalsy(tool_output) THEN ""
    ELSE IF tool_output.kind = "str"
    THEN IF Len(tool_output.str) > max_length
         THEN SubSeq(tool_output.str, 1, max_length) \o TruncMarker
         ELSE tool_output.str
    ELSE IF tool_output.kind = "list"
    THEN JoinLines(OutputParts(tool_output.items, <<>>, 0))
    ELSE IF tool_output.success.has
    THEN "Success: " \o tool_output.success.v \o "\n" \o tool_output.message
    ELSE DumpCapped(tool_output)

----------------------------------------------------------------------------
(* create_keywordsai_spans *)

JsonStr(s) == "\"" \o s \o "\""

PromptJson(user_text) ==
    "[{\"role\": \"user\", \"content\": " \o JsonStr(user_text) \o "}]"

CompletionJson(final_output) ==
    "{\"role\": \"assistant\", \"content\": " \o JsonStr(final_output) \o "}"

(* parse_timestamp: the parsed time, or none *)
parse_timestamp(ts) == IF ts.k = "ok" THEN Some(ts) ELSE Absent

TsOr(ts, fallback) == IF ts.k = "none" THEN fallback ELSE ts

MsDivisor == 1000

(* usage.get on a non-mapping; arithmetic or comparison on null / string *)
UsageFalsy(usage) ==
    \/ usage.kind = "none"
    \/ /\ usage.kind = "map"
       /\ usage.input_tokens.k = "absent"
       /\ usage.output_tokens.k = "absent"
       /\ usage.cache_creation_input_tokens.k = "absent"
       /\ usage.cache_read_input_tokens.k = "absent"
       /\ ~usage.service_tier.has

NumOr0(n) == IF n.k = "absent" THEN 0 ELSE n.v

IsNumeric(n) == n.k \in {"absent", "num"}

UsageRaises(usage) ==
    /\ ~UsageFalsy(usage)
    /\ \/ usage.kind = "nonmap"
       \/ ~IsNumeric(usage.input_tokens)
       \/ ~IsNumeric(usage.output_tokens)
       \/ ~IsNumeric(usage.cache_creation_input_tokens)
       \/ ~IsNumeric(usage.cache_read_input_tokens)

UsageObj(usage) ==
    LET prompt_tokens == NumOr0(usage.input_tokens)
        completion_tokens == NumOr0(usage.output_tokens)
        total_tokens == prompt_tokens + completion_tokens
        cache_creation == NumOr0(usage.cache_creation_input_tokens)
        cache_read == NumOr0(usage.cache_read_input_tokens)
    IN  [prompt_tokens |-> Some(prompt_tokens),
         completion_tokens |-> Some(completion_tokens),
         total_tokens |-> IF total_tokens > 0 THEN Some(total_tokens) ELSE Absent,
         cache_creation_prompt_tokens |->
             IF cache_creation > 0 THEN Some(cache_creation) ELSE Absent,
         prompt_tokens_details |->
             IF cache_creation > 0 \/ cache_read > 0
             THEN Some([cache_creation_tokens |->
                            IF cache_creation > 0 THEN Some(cache_creation) ELSE Absent,
                        cached_tokens |->
                            IF cache_read > 0 THEN Some(cache_read) ELSE Absent])
             ELSE Absent]

NoUsageObj ==
    [prompt_tokens |-> Absent, completion_tokens |-> Absent, total_tokens |-> Absent,
     cache_creation_prompt_tokens |-> Absent, prompt_tokens_details |-> Absent]

(* Subtracting an offset-aware and an offset-naive datetime raises TypeError *)
LatencyRaises(user_time, assistant_time) ==
    /\ user_time.has
    /\ assistant_time.has
    /\ user_time.v.tz # assistant_time.v.tz

RootLatency(user_time, assistant_time) ==
    IF user_time.has /\ assistant_time.has
    THEN Some(assistant_time.v.t - user_time.v.t)
    ELSE Absent

TurnId(turn_num) == "turn_" \o ToString(turn_num)

(* Mutant: model, usage and timing are taken from the last message *)
FirstAssistantIsLast(assistant_msgs) == assistant_msgs[Len(assistant_msgs)]

(* first_assistant_msg = assistant_msgs[0] *)
FirstAssistant(assistant_msgs) == assistant_msgs[1]

ChatSpan(session_id, turn_num, user_msg, assistant_msgs) ==
    LET user_text == get_text_content(user_msg)
        user_timestamp == user_msg.ts
        user_time == parse_timestamp(user_timestamp)
        final_output == IF assistant_msgs # <<>>
                        THEN get_text_content(assistant_msgs[Len(assistant_msgs)])
                        ELSE ""
        hasFirst == assistant_msgs # <<>>
                        /\ FirstAssistant(assistant_msgs).msg = "object"
        first == FirstAssistant(assistant_msgs)
        model == IF hasFirst /\ first.model.has THEN first.model.v ELSE "claude"
        usage == IF hasFirst THEN first.usage ELSE UsageNone
        request_id == IF hasFirst THEN first.requestId ELSE Absent
        stop_reason == IF hasFirst THEN first.stop_reason ELSE Absent
        assistant_timestamp == IF hasFirst THEN first.ts ELSE TsNone
        assistant_time == parse_timestamp(assistant_timestamp)
        usage_obj == IF UsageFalsy(usage) THEN NoUsageObj ELSE UsageObj(usage)
    IN  [trace_unique_id |-> session_id \o "_" \o TurnId(turn_num),
         thread_identifier |-> "claudecode_" \o session_id,
         span_unique_id |-> TurnId(turn_num) \o "_chat",
         span_parent_id |-> Absent,
         span_name |-> "claudecode_" \o session_id \o "_" \o TurnId(turn_num),
         span_workflow_name |-> "claudecode_" \o session_id,
         log_type |-> "agent",
         input |-> IF user_text # "" THEN PromptJson(user_text) ELSE "",
         output |-> IF final_output # "" THEN CompletionJson(final_output) ELSE "",
         model |-> model,
         timestamp |-> TsOr(assistant_timestamp, TsNow),
         start_time |-> TsOr(user_timestamp, TsOr(assistant_timestamp, TsNow)),
         metadata |-> Some([claude_code_turn |-> turn_num,
                            request_id |-> request_id,
                            stop_reason |-> stop_reason,
                            service_tier |-> IF UsageFalsy(usage) THEN Absent
                                             ELSE usage.service_tier]),
         prompt_tokens |-> usage_obj.prompt_tokens,
         completion_tokens |-> usage_obj.completion_tokens,
         total_tokens |-> usage_obj.total_tokens,
         cache_creation_prompt_tokens |-> usage_obj.cache_creation_prompt_tokens,
         prompt_tokens_details |-> usage_obj.prompt_tokens_details,
         latency |-> RootLatency(user_time, assistant_time)]

ChatSpanRaises(user_msg, assistant_msgs) ==
    LET hasFirst == assistant_msgs # <<>>
                        /\ FirstAssistant(assistant_msgs).msg = "object"
        first == FirstAssistant(assistant_msgs)
    IN  \/ GetContentRaises(user_msg)
        \/ assistant_msgs # <<>> /\ GetContentRaises(assistant_msgs[Len(assistant_msgs)])
        \/ hasFirst /\ UsageRaises(first.usage)
        \/ hasFirst /\ LatencyRaises(parse_timestamp(user_msg.ts),
                                     parse_timestamp(first.ts))

----------------------------------------------------------------------------
(* Thinking spans *)

(* Mutant: a thinking block with an empty text gets a span too *)
ThinkingBlocksOfAll(assistant_msg) ==
    IF assistant_msg.msg = "object" /\ assistant_msg.content.kind = "list"
    THEN LET th == SelectSeq(assistant_msg.content.blocks,
                             LAMBDA item : item.type = "thinking")
         IN  [i \in 1..Len(th) |-> [text |-> th[i].thinking, ts |-> assistant_msg.ts]]
    ELSE <<>>

ThinkingBlocksOf(assistant_msg) ==
    IF assistant_msg.msg = "object" /\ assistant_msg.content.kind = "list"
    THEN LET th == SelectSeq(assistant_msg.content.blocks,
                             LAMBDA item : item.type = "thinking" /\ item.thinking # "")
         IN  [i \in 1..Len(th) |-> [text |-> th[i].thinking, ts |-> assistant_msg.ts]]
    ELSE <<>>

RECURSIVE ThinkingBlocks(_)
ThinkingBlocks(assistant_msgs) ==
    IF assistant_msgs = <<>> THEN <<>>
    ELSE ThinkingBlocksOf(Head(assistant_msgs)) \o ThinkingBlocks(Tail(assistant_msgs))

(* Mutant: every thinking span of a turn gets the index 1 *)
ThinkingIndexOne(i) == 1

ThinkingIndex(i) == i

ThinkingSpans(session_id, turn_num, assistant_msgs, timestamp_str) ==
    LET th == ThinkingBlocks(assistant_msgs)
    IN  [i \in 1..Len(th) |->
            [trace_unique_id |-> session_id \o "_" \o TurnId(turn_num),
             span_unique_id |-> TurnId(turn_num) \o "_thinking_"
                                \o ToString(ThinkingIndex(i)),
             span_parent_id |-> Some(TurnId(turn_num) \o "_chat"),
             span_name |-> "Thinking " \o ToString(ThinkingIndex(i)),
             span_workflow_name |-> "claudecode_" \o session_id,
             log_type |-> "generation",
             input |-> "",
             output |-> th[i].text,
             timestamp |-> TsOr(th[i].ts, timestamp_str),
             start_time |-> TsOr(th[i].ts, timestamp_str),
             metadata |-> Absent,
             latency |-> Absent]]

ThinkingRaises(assistant_msgs) ==
    \E i \in 1..Len(assistant_msgs) : assistant_msgs[i].msg = "other"

----------------------------------------------------------------------------
(* Tool calls and their results *)

CallsOf(assistant_msg) ==
    LET tc == get_tool_calls(assistant_msg)
    IN  [i \in 1..Len(tc) |->
            [name |-> tc[i].name, input |-> tc[i].input, id |-> tc[i].id,
             timestamp |-> assistant_msg.ts,
             output |-> Absent, result_metadata |-> Absent,
             result_timestamp |-> TsNone]]

RECURSIVE AllCalls(_)
AllCalls(assistant_msgs) ==
    IF assistant_msgs = <<>> THEN <<>>
    ELSE CallsOf(Head(assistant_msgs)) \o AllCalls(Tail(assistant_msgs))

MapHas(map, id) == \E i \in 1..Len(map) : map[i].id = id

MapIndex(map, id) == CHOOSE i \in 1..Len(map) : map[i].id = id

(* Mutant: every tool_use block gets an entry of its own *)
MapPutAppend(map, entry) == Append(map, entry)

(* tool_call_map[tool_id] = {...}: a dict keeps the position of the first   *)
(* insertion of a key and the value of the last assignment                 *)
MapPut(map, entry) ==
    IF MapHas(map, entry.id)
    THEN [map EXCEPT ![MapIndex(map, entry.id)] = entry]
    ELSE Append(map, entry)

RECURSIVE BuildCallMap(_, _)
BuildCallMap(calls, map) ==
    IF calls = <<>> THEN map
    ELSE BuildCallMap(Tail(calls), MapPut(map, Head(calls)))

ResultMetadata(tr) ==
    IF tr.tur.kind = "map"
    THEN [duration_ms |-> tr.tur.durationMs, num_files |-> tr.tur.numFiles,
          filenames |-> tr.tur.filenames, truncated |-> tr.tur.truncated]
    ELSE [duration_ms |-> NAbsent, num_files |-> Absent,
          filenames |-> Absent, truncated |-> Absent]

MetadataEmpty(md) ==
    /\ md.duration_ms.k = "absent"
    /\ ~md.num_files.has
    /\ ~md.filenames.has
    /\ ~md.truncated.has

(* Mutant: a result goes to the first call that has no output yet *)
AttachResultPositional(map, item, tr) ==
    IF \E i \in 1..Len(map) : ~map[i].output.has
    THEN [map EXCEPT ![CHOOSE i \in 1..Len(map) :
                          /\ ~map[i].output.has
                          /\ \A j \in 1..(i - 1) : map[j].output.has] =
             [@ EXCEPT !.output = Some(item.content),
                       !.result_metadata = Some(ResultMetadata(tr)),
                       !.result_timestamp = tr.ts]]
    ELSE map

(* Mutant: a result that matches no call of the turn gets an entry of its *)
(* own                                                                     *)
AttachResultOrAdd(map, item, tr) ==
    IF MapHas(map, item.tool_use_id)
    THEN [map EXCEPT ![MapIndex(map, item.tool_use_id)] =
             [@ EXCEPT !.output = Some(item.content),
                       !.result_metadata = Some(ResultMetadata(tr)),
                       !.result_timestamp = tr.ts]]
    ELSE Append(map, [name |-> "unknown", input |-> InEmpty,
                      id |-> item.tool_use_id, timestamp |-> TsNone,
                      output |-> Some(item.content),
                      result_metadata |-> Some(ResultMetadata(tr)),
                      result_timestamp |-> tr.ts])

AttachResult(map, item, tr) ==
    IF MapHas(map, item.tool_use_id)
    THEN [map EXCEPT ![MapIndex(map, item.tool_use_id)] =
             [@ EXCEPT !.output = Some(item.content),
                       !.result_metadata = Some(ResultMetadata(tr)),
                       !.result_timestamp = tr.ts]]
    ELSE map

RECURSIVE AttachItems(_, _, _)
AttachItems(map, items, tr) ==
    IF items = <<>> THEN map
    ELSE AttachItems(
             IF Head(items).type = "tool_result"
             THEN AttachResult(map, Head(items), tr) ELSE map,
             Tail(items), tr)

RECURSIVE AttachResults(_, _)
AttachResults(map, tool_results) ==
    IF tool_results = <<>> THEN map
    ELSE LET tr == Head(tool_results)
             tr_content == get_content(tr)
         IN  AttachResults(
                 IF tr_content.kind = "list"
                 THEN AttachItems(map, tr_content.blocks, tr) ELSE map,
                 Tail(tool_results))

ToolCallMap(assistant_msgs, tool_results) ==
    AttachResults(BuildCallMap(AllCalls(assistant_msgs), <<>>), tool_results)

(* Hashing a list raises TypeError; "durationMs" in <int> raises TypeError *)
CallMapRaises(assistant_msgs, tool_results) ==
    \/ \E i \in 1..Len(assistant_msgs) : GetContentRaises(assistant_msgs[i])
    \/ \E i \in 1..Len(AllCalls(assistant_msgs)) :
            AllCalls(assistant_msgs)[i].id = Unhashable
    \/ \E i \in 1..Len(tool_results) :
            \/ GetContentRaises(tool_results[i])
            \/ tool_results[i].tur.kind = "int"
            \/ /\ tool_results[i].content.kind = "list"
               /\ \E j \in 1..Len(tool_results[i].content.blocks) :
                     /\ tool_results[i].content.blocks[j].type = "tool_result"
                     /\ tool_results[i].content.blocks[j].tool_use_id = Unhashable

----------------------------------------------------------------------------
(* Tool spans *)

TsTruthy(ts) == ts.k # "none"

MetadataOf(tool_data) ==
    IF tool_data.result_metadata.has /\ ~MetadataEmpty(tool_data.result_metadata.v)
    THEN tool_data.result_metadata
    ELSE Absent

DurationTruthy(d) == d.k = "str" \/ (d.k = "num" /\ d.v # 0)

(* duration_ms / 1000.0, kept as the fraction num / den *)
ToolLatency(tool_data) ==
    LET md == MetadataOf(tool_data)
    IN  IF md.has /\ DurationTruthy(md.v.duration_ms)
        THEN Some([num |-> md.v.duration_ms.v, den |-> MsDivisor])
        ELSE Absent

(* Mutant: a missing output is rendered as the text of None *)
ToolOutputNoneText(tool_data) ==
    IF tool_data.output.has THEN tool_data.output.v ELSE OutStr("None")

ToolOutput(tool_data) ==
    IF tool_data.output.has THEN tool_data.output.v ELSE OutNone

(* Mutant: without a result timestamp the span gets the turn's timestamp *)
ToolTimestampOfTurn(tool_data, timestamp_str) ==
    IF TsTruthy(tool_data.result_timestamp)
    THEN tool_data.result_timestamp
    ELSE timestamp_str

(* result_timestamp or the call's timestamp or timestamp_str *)
ToolTimestamp(tool_data, timestamp_str) ==
    IF TsTruthy(tool_data.result_timestamp)
    THEN tool_data.result_timestamp
    ELSE TsOr(tool_data.timestamp, timestamp_str)

ToolSpan(session_id, turn_num, tool_num, tool_data, timestamp_str, start_time_str) ==
    [trace_unique_id |-> session_id \o "_" \o TurnId(turn_num),
     span_unique_id |-> TurnId(turn_num) \o "_tool_" \o ToString(tool_num),
     span_parent_id |-> Some(TurnId(turn_num) \o "_chat"),
     span_name |-> "Tool: " \o tool_data.name,
     span_workflow_name |-> "claudecode_" \o session_id,
     log_type |-> "tool",
     input |-> format_tool_input(tool_data.name, tool_data.input),
     output |-> format_tool_output(tool_data.name, ToolOutput(tool_data)),
     timestamp |-> ToolTimestamp(tool_data, timestamp_str),
     start_time |-> TsOr(tool_data.timestamp, start_time_str),
     metadata |-> MetadataOf(tool_data),
     latency |-> ToolLatency(tool_data)]

ToolSpans(session_id, turn_num, map, timestamp_str, start_time_str) ==
    [i \in 1..Len(map) |->
        ToolSpan(session_id, turn_num, i, map[i], timestamp_str, start_time_str)]

(* len(<number>) in format_tool_input; <string> / 1000.0 *)
ToolSpansRaise(map) ==
    \E i \in 1..Len(map) :
        \/ FormatToolInputRaises(map[i].name, map[i].input)
        \/ /\ MetadataOf(map[i]).has
           /\ MetadataOf(map[i]).v.duration_ms.k = "str"

CreateSpansRaises(user_msg, assistant_msgs, tool_results) ==
    \/ ChatSpanRaises(user_msg, assistant_msgs)
    \/ ThinkingRaises(assistant_msgs)
    \/ CallMapRaises(assistant_msgs, tool_results)
    \/ ToolSpansRaise(ToolCallMap(assistant_msgs, tool_results))

create_keywordsai_spans(session_id, turn_num, user_msg, assistant_msgs, tool_results) ==
    IF CreateSpansRaises(user_msg, assistant_msgs, tool_results)
    THEN [raised |-> TRUE, spans |-> <<>>]
    ELSE LET chat_span == ChatSpan(session_id, turn_num, user_msg, assistant_msgs)
         IN  [raised |-> FALSE,
              spans |-> <<chat_span>>
                  \o ThinkingSpans(session_id, turn_num, assistant_msgs,
                                   chat_span.timestamp)
                  \o ToolSpans(session_id, turn_num,
                               ToolCallMap(assistant_msgs, tool_results),
                               chat_span.timestamp, chat_span.start_time)]

----------------------------------------------------------------------------
(* process_transcript: reading the new lines *)

SessionId == "s1"

IsBlank(line) == line.json = "blank"

RECURSIVE LStrip(_)
LStrip(ls) ==
    IF ls # <<>> /\ IsBlank(Head(ls).line) THEN LStrip(Tail(ls)) ELSE ls

RECURSIVE RStrip(_)
RStrip(ls) ==
    IF ls # <<>> /\ IsBlank(ls[Len(ls)].line)
    THEN RStrip(SubSeq(ls, 1, Len(ls) - 1)) ELSE ls

(* read_text().strip().split("\n"): the lines of the file without leading  *)
(* and trailing blank lines, each with its position in the file; an empty  *)
(* text splits into one empty line                                         *)
SplitLines(file) ==
    LET numbered == [i \in 1..Len(file) |-> [i |-> i, line |-> file[i]]]
        stripped == RStrip(LStrip(numbered))
    IN  IF stripped = <<>> THEN <<[i |-> 0, line |-> BlankLine]>> ELSE stripped

(* Mutant: every run reads the log from its first line *)
StoredLastLineZero(st) == 0

StoredLastLine(st) == IF st.has THEN st.v.last_line ELSE 0

StoredTurnCount(st) == IF st.has THEN st.v.turn_count ELSE 0

(* Mutant: the last line before the cursor is read again *)
NewRangeFromCursor(last_line, total_lines) ==
    (IF last_line > 0 THEN last_line ELSE 1)..total_lines

(* Mutant: the lines before the cursor are read again *)
NewRangeAll(last_line, total_lines) == 1..total_lines

(* range(last_line, total_lines), as 1-based positions *)
NewRange(last_line, total_lines) == (last_line + 1)..total_lines

(* json.loads of each non-blank new line; JSONDecodeError skips the line *)
Parses(line) == line.json \in {"object", "value"}

NewMessages(lines, last_line) ==
    LET idx == NewRange(last_line, Len(lines))
        kept == {i \in idx : Parses(lines[i].line)}
        Nth[n \in 1..Cardinality(kept)] ==
            CHOOSE i \in kept : Cardinality({j \in kept : j < i}) = n - 1
    IN  [n \in 1..Cardinality(kept) |->
            [i |-> lines[Nth[n]].i, m |-> lines[Nth[n]].line]]

----------------------------------------------------------------------------
(* process_transcript: grouping the new messages into turns.  Each message *)
(* travels with the position i of its line in the file.  The loop state:   *)
(*   current_user (with its position), current_assistants,                 *)
(*   current_assistant_parts, current_msg_id ("" for None),                *)
(*   current_tool_results, turns_processed, the POSTs made, raised, and    *)
(*   compiled: the turns passed to create_keywordsai_spans so far          *)

LoopInit ==
    [current_user |-> Absent, current_assistants |-> <<>>,
     current_assistant_parts |-> <<>>, current_msg_id |-> "",
     current_tool_results |-> <<>>, turns_processed |-> 0,
     posts |-> <<>>, raised |-> FALSE, compiled |-> <<>>]

(* msg.get on a JSON value that is not an object; .get on a "message" that *)
(* is not an object                                                        *)
RoleRaises(msg) ==
    \/ msg.json = "value"
    \/ msg.type = "" /\ msg.msg = "other"

RoleOf(msg) ==
    IF msg.type # "" THEN msg.type
    ELSE IF msg.msg = "object" THEN msg.role
    ELSE ""

(* if current_msg_id and current_assistant_parts: merge and append *)
Finalize(st) ==
    IF st.current_msg_id # "" /\ st.current_assistant_parts # <<>>
    THEN [st EXCEPT !.current_assistants =
                        Append(@, merge_assistant_parts(st.current_assistant_parts))]
    ELSE st

(* Mutant: a turn is compiled as soon as it has a user message *)
TurnReadyUserOnly(st) == st.current_user.has

TurnReady(st) == st.current_user.has /\ st.current_assistants # <<>>

TurnNum(turn_count, turns_processed) == turn_count + turns_processed

(* requests.post in try/except: a failed POST is logged and the run goes on *)
AfterPost(st, post) == [st EXCEPT !.posts = Append(@, post)]

(* if current_user and current_assistants: compile the turn and POST it;   *)
(* fails tells which POSTs of the run (by their order) fail                *)
Posted(st, turn_count, fails, out) ==
    LET turn_num == TurnNum(turn_count, st.turns_processed + 1)
    IN  IF out.raised
        THEN [st EXCEPT !.turns_processed = @ + 1, !.raised = TRUE]
        ELSE AfterPost([st EXCEPT !.turns_processed = @ + 1],
                 [turn_num |-> turn_num,
                  user |-> st.current_user.v.i,
                  spans |-> Len(out.spans),
                  ok |-> (Len(st.posts) + 1) \notin fails])

(* The arguments of one call of create_keywordsai_spans *)
TurnArgs(st, turn_count) ==
    [turn_num |-> TurnNum(turn_count, st.turns_processed + 1),
     user |-> st.current_user.v,
     assistants |-> st.current_assistants,
     tool_results |-> st.current_tool_results]

Emit(st, turn_count, fails) ==
    IF ~TurnReady(st) THEN st
    ELSE Bind(create_keywordsai_spans(SessionId,
                  TurnNum(turn_count, st.turns_processed + 1),
                  st.current_user.v.m, st.current_assistants,
                  st.current_tool_results),
              LAMBDA out :
                  Posted([st EXCEPT !.compiled = Append(@, TurnArgs(st, turn_count))],
                         turn_count, fails, out))

(* New user message - finalize previous turn *)
FinalizeAndClear(st) ==
    IF st.current_msg_id # "" /\ st.current_assistant_parts # <<>>
    THEN [Finalize(st) EXCEPT !.current_assistant_parts = <<>>,
                              !.current_msg_id = ""]
    ELSE st

(* Mutant: the tool results collected so far go to the new turn *)
StartTurnKeepResults(st, im) ==
    [st EXCEPT !.current_user = Some(im),
               !.current_assistants = <<>>,
               !.current_assistant_parts = <<>>,
               !.current_msg_id = ""]

StartTurn(st, im) ==
    [st EXCEPT !.current_user = Some(im),
               !.current_assistants = <<>>,
               !.current_assistant_parts = <<>>,
               !.current_msg_id = "",
               !.current_tool_results = <<>>]

OnUser(st, im, turn_count, fails) ==
    IF GetContentRaises(im.m) THEN [st EXCEPT !.raised = TRUE]
    ELSE IF is_tool_result(im.m)
    THEN [st EXCEPT !.current_tool_results = Append(@, im.m)]
    ELSE Bind(FinalizeAndClear(st), LAMBDA fin :
             Bind(Emit(fin, turn_count, fails), LAMBDA em :
                 IF em.raised THEN em ELSE StartTurn(em, im)))

(* Mutant: a fragment never continues the message in progress by its       *)
(* identifier                                                              *)
SameMessageNever(msg_id, current_msg_id) == FALSE

SameMessage(msg_id, current_msg_id) == msg_id = current_msg_id

OnAssistant(st, im) ==
    IF im.m.msg = "other" THEN [st EXCEPT !.raised = TRUE]
    ELSE LET msg_id == IF im.m.msg = "object" THEN im.m.id ELSE ""
         IN  IF msg_id = "" \/ SameMessage(msg_id, st.current_msg_id)
             THEN [st EXCEPT !.current_assistant_parts = Append(@, im.m)]
             ELSE [Finalize(st) EXCEPT !.current_msg_id = msg_id,
                                       !.current_assistant_parts = <<im.m>>]

Step(st, im, turn_count, fails) ==
    IF RoleRaises(im.m) THEN [st EXCEPT !.raised = TRUE]
    ELSE IF RoleOf(im.m) = "user" THEN OnUser(st, im, turn_count, fails)
    ELSE IF RoleOf(im.m) = "assistant" THEN OnAssistant(st, im)
    ELSE st

(* for msg in new_messages; an exception ends the loop *)
RECURSIVE Loop(_, _, _, _)
Loop(st, msgs, turn_count, fails) ==
    IF st.raised \/ msgs = <<>> THEN st
    ELSE Bind(Step(st, Head(msgs), turn_count, fails), LAMBDA s :
             Bind(Tail(msgs), LAMBDA t : Loop(s, t, turn_count, fails)))

(* Process final turn *)
FinalTurn(st, turn_count, fails) ==
    IF st.raised THEN st
    ELSE Bind(Finalize(st), LAMBDA fin : Emit(fin, turn_count, fails))

----------------------------------------------------------------------------
(* process_transcript as a whole: the POSTs it makes, the session state it *)
(* leaves, and how it ended:                                               *)
(*   "noop"    last_line >= total_lines, return 0                          *)
(*   "empty"   no new line parsed, return 0                                *)
(*   "saved"   the state was updated and saved                             *)
(*   "raised"  an exception left the function before the state was saved   *)

NothingNew(last_line, total_lines) == last_line >= total_lines

(* Mutant: the turn counter is set to the turns of this run *)
SavedStateTurnsOfRun(total_lines, turn_count, turns_processed) ==
    Some([last_line |-> total_lines, turn_count |-> turns_processed])

SavedState(total_lines, turn_count, turns_processed) ==
    Some([last_line |-> total_lines, turn_count |-> turn_count + turns_processed])

(* Mutant: the state is updated and saved before the early returns *)
OutcomeSavesAlways(st, total_lines, new_messages, fin) ==
    IF fin.raised
    THEN [end |-> "raised", posts |-> fin.posts, store |-> st,
          total |-> total_lines, turns |-> fin.compiled]
    ELSE [end |-> IF NothingNew(StoredLastLine(st), total_lines) THEN "noop"
                  ELSE "saved",
          posts |-> fin.posts,
          store |-> SavedState(total_lines, StoredTurnCount(st),
                               fin.turns_processed),
          total |-> total_lines, turns |-> fin.compiled]

Outcome(st, total_lines, new_messages, fin) ==
    IF NothingNew(StoredLastLine(st), total_lines)
    THEN [end |-> "noop", posts |-> <<>>, store |-> st, total |-> total_lines,
          turns |-> <<>>]
    ELSE IF new_messages = <<>>
    THEN [end |-> "empty", posts |-> <<>>, store |-> st, total |-> total_lines,
          turns |-> <<>>]
    ELSE IF fin.raised
    THEN [end |-> "raised", posts |-> fin.posts, store |-> st,
          total |-> total_lines, turns |-> fin.compiled]
    ELSE [end |-> "saved", posts |-> fin.posts,
          store |-> SavedState(total_lines, StoredTurnCount(st),
                               fin.turns_processed),
          total |-> total_lines, turns |-> fin.compiled]

process_transcript(file, st, fails) ==
    Bind(SplitLines(file), LAMBDA lines :
        Bind(NewMessages(lines, StoredLastLine(st)), LAMBDA new_messages :
            Bind(Loop(LoopInit, new_messages, StoredTurnCount(st), fails),
                 LAMBDA looped :
                Bind(FinalTurn(looped, StoredTurnCount(st), fails), LAMBDA fin :
                    Outcome(st, Len(lines), new_messages, fin)))))

(* save_state: mkdir, then write_text, which opens the state file for      *)
(* writing (emptying it) and writes the new text.  The save succeeds, or   *)
(* fails before the file is opened and leaves it as it was, or fails while *)
(* writing and leaves a file that load_state reads as {}.                  *)
SaveOutcomes == {"ok", "untouched", "truncated"}

(* Mutant: a failed save still leaves the new state behind *)
AfterSaveAlwaysNew(current, new, outcome) == new

AfterSave(current, new, outcome) ==
    IF outcome = "ok" THEN new
    ELSE IF outcome = "untouched" THEN current
    ELSE Absent

(* How a run ends when save_state is reached with the given outcome *)
EndAfterSave(end, outcome) ==
    IF end = "saved" /\ outcome # "ok" THEN "savefailed" ELSE end

(* process_transcript with a save_state that may fail *)
process_and_save(file, st, fails, outcome) ==
    Bind(process_transcript(file, st, fails), LAMBDA r :
        [r EXCEPT !.store = IF r.end = "saved"
                            THEN AfterSave(st, r.store, outcome) ELSE r.store,
                  !.end = EndAfterSave(r.end, outcome)])

----------------------------------------------------------------------------
(* The session: the transcript grows line by line, and the hook runs, one  *)
(* invocation at a time.                                                   *)

MaxLog == 4
MaxSent == 3

UserLine ==
    Obj("user", "object", "user", "", CStr("q"), Ts(0), UsageNone, TurNone)

AsstLine(id, blocks) ==
    [Obj("assistant", "object", "assistant", id, CList(blocks), Ts(3),
         Usage(Num(2), Num(1), NAbsent, NAbsent), TurNone)
     EXCEPT !.model = Some("x")]

ToolResultLine(id, out) ==
    Obj("user", "object", "user", "", CList(<<ToolResB(id, out)>>), Ts(3),
        UsageNone, Tur(Num(1500)))

SystemLine ==
    Obj("system", "absent", "", "", CNone, TsNone, UsageNone, TurNone)

BashCall(id) == ToolUseB(id, "Bash", InDict("", FcAbsent, "ls", "{}"))

UserBadMessage ==
    Obj("user", "other", "", "", CNone, TsNone, UsageNone, TurNone)

SessionLines ==
    {UserLine,
     AsstLine("m1", <<ThinkB("hm"), BashCall("t1")>>),
     AsstLine("m2", <<TextB("4")>>),
     ToolResultLine("t1", OutStr("ok")),
     InvalidLine, ValueLine}

MalformedLines == {BlankLine, InvalidLine, ValueLine, UserBadMessage}

NoRun ==
    [end |-> "none", posts |-> <<>>, before |-> Absent, total |-> 0,
     turns |-> <<>>]

Init ==
    /\ log = <<>>
    /\ store = Absent
    /\ sent = <<>>
    /\ last = NoRun
    /\ arg = <<>>
    /\ res = <<>>
    /\ pc = "session"

AppendLine(lines) ==
    /\ pc = "session"
    /\ Len(log) < MaxLog
    /\ \E l \in lines : log' = Append(log, l)
    /\ UNCHANGED <<store, sent, last, arg, res, pc>>

RunHook ==
    /\ pc = "session"
    /\ Len(sent) < MaxSent
    /\ \E fails \in SUBSET (1..2) :
          \E r \in {process_transcript(log, store, fails)} :
              /\ store' = r.store
              /\ sent' = sent \o r.posts
              /\ last' = [end |-> r.end, posts |-> r.posts, before |-> store,
                          total |-> r.total, turns |-> r.turns]
    /\ UNCHANGED <<log, arg, res, pc>>

(* The file is replaced by a shorter one (rotated or rewritten) *)
ShrinkLog ==
    /\ pc = "session"
    /\ log # <<>>
    /\ log' = SubSeq(log, 1, Len(log) - 1)
    /\ UNCHANGED <<store, sent, last, arg, res, pc>>

Next == AppendLine(SessionLines) \/ RunHook

Spec == Init /\ [][Next]_vars

NextShrink == AppendLine({UserLine, AsstLine("m1", <<TextB("4")>>)})
                \/ RunHook \/ ShrinkLog

SpecShrink == Init /\ [][NextShrink]_vars

NextMalformed ==
    AppendLine({UserLine, AsstLine("m1", <<TextB("4")>>)} \cup MalformedLines)
        \/ RunHook

SpecMalformed == Init /\ [][NextMalformed]_vars

----------------------------------------------------------------------------
(* Properties of the session *)

Ran == last.end # "none"

(* C1: over non-overlapping runs on an append-only log no turn is emitted  *)
(* twice: no user message is the user message of two POSTs and no turn     *)
(* number is sent in two POSTs.                                            *)
C1_NoTurnEmittedTwice ==
    \A i, j \in 1..Len(sent) :
        i # j => /\ sent[i].user # sent[j].user
                 /\ sent[i].turn_num # sent[j].turn_num

(* C2: a run that starts with turn_count = c and closes k turns sends the  *)
(* turn numbers c+1 .. c+k in order and persists turn_count = c+k, so the  *)
(* numbers sent for the session are 1, 2, 3, ... without gap or repeat.    *)
C2_TurnNumbersConsecutive ==
    /\ \A i \in 1..Len(sent) : sent[i].turn_num = i
    /\ \A k \in 1..Len(last.posts) :
           last.posts[k].turn_num = StoredTurnCount(last.before) + k
    /\ Ran => StoredTurnCount(store)
                  = StoredTurnCount(last.before) + Len(last.posts)

(* C7: whichever POSTs fail, every closed turn is sent once and in order,  *)
(* the persisted state is that of the run with every POST succeeding, and  *)
(* a turn whose POST failed is not sent again by a later run.              *)
C7_FailedPostNeverResent ==
    /\ \A fails \in SUBSET (1..2) :
           /\ process_transcript(log, store, fails).store
                  = process_transcript(log, store, {}).store
           /\ Len(process_transcript(log, store, fails).posts)
                  = Len(process_transcript(log, store, {}).posts)
    /\ \A i, j \in 1..Len(sent) :
           (i < j /\ ~sent[i].ok) => sent[j].user # sent[i].user

(* C8: a new line that is not a well-formed record is skipped: the run     *)
(* does not abort, and it emits and persists what it would with the line   *)
(* absent.                                                                 *)
Skipped(file) ==
    [i \in 1..Len(file) |->
        IF file[i] \in MalformedLines \ {BlankLine} THEN SystemLine ELSE file[i]]

C8_MalformedLineSkipped ==
    \A fails \in SUBSET (1..2) :
        /\ process_transcript(log, store, fails).end # "raised"
        /\ process_transcript(log, store, fails).posts
               = process_transcript(Skipped(log), store, fails).posts

(* C3: a run whose stored cursor is at or beyond the line count of the log *)
(* emits nothing, sends nothing and leaves the stored state as it was.     *)
C3_CoveredLogIsNoOp ==
    (Ran /\ StoredLastLine(last.before) >= last.total)
        => /\ last.end = "noop"
           /\ last.posts = <<>>
           /\ store = last.before

C3_Witness ==
    /\ last.end = "noop"
    /\ sent # <<>>
    /\ StoredLastLine(last.before) = last.total

----------------------------------------------------------------------------
(* Merging the fragments of one assistant message: the fragments in log    *)
(* are fed to the assembler one by one (arg holds those still to come,     *)
(* res the loop state), then the message in progress is finalized.         *)

MaxParts == 3

Fragment(content, model, ts, usage) ==
    [Obj("assistant", "object", "assistant", "m1", content, ts, usage, TurNone)
     EXCEPT !.model = Some(model)]

Fragments ==
    {Fragment(CList(<<ThinkB("a"), TextB("b")>>), "x", Ts(1),
              Usage(Num(2), Num(1), NAbsent, NAbsent)),
     Fragment(CList(<<BashCall("t1")>>), "y", Ts(2),
              Usage(Num(5), Num(5), NAbsent, NAbsent)),
     Fragment(CStr("s"), "z", Ts(3), UsageNone),
     Fragment(CStr(""), "y", TsNone, UsageNone),
     Fragment(CNone, "x", Ts(2), UsageNone)}

SeqsUpTo(S, n) == UNION {[1..k -> S] : k \in 1..n}

InitMerge ==
    /\ log \in SeqsUpTo(Fragments, MaxParts)
    /\ arg = log
    /\ res = LoopInit
    /\ pc = "merge"
    /\ store = Absent
    /\ sent = <<>>
    /\ last = NoRun

FeedFragment ==
    /\ pc = "merge"
    /\ arg # <<>>
    /\ res' = Step(res, [i |-> Len(log) - Len(arg) + 1, m |-> Head(arg)], 0, {})
    /\ arg' = Tail(arg)
    /\ UNCHANGED <<log, store, sent, last, pc>>

FinishMessage ==
    /\ pc = "merge"
    /\ arg = <<>>
    /\ res' = Finalize(res)
    /\ pc' = "merged"
    /\ UNCHANGED <<log, store, sent, last, arg>>

NextMerge == FeedFragment \/ FinishMessage

SpecMerge == InitMerge /\ [][NextMerge]_vars

Merged == res.current_assistants[1]

(* The blocks a fragment contributes, as the claim words it: a list gives  *)
(* its blocks, a plain string one text block                               *)
ClaimedBlocks(f) ==
    IF f.content.kind = "list" THEN f.content.blocks
    ELSE IF f.content.kind = "str" THEN <<TextB(f.content.str)>>
    ELSE <<>>

(* As amended: an empty plain string gives no block *)
AmendedBlocks(f) ==
    IF f.content.kind = "str" /\ f.content.str = "" THEN <<>> ELSE ClaimedBlocks(f)

Concat3(B(_), fs) ==
    (IF Len(fs) >= 1 THEN B(fs[1]) ELSE <<>>)
    \o (IF Len(fs) >= 2 THEN B(fs[2]) ELSE <<>>)
    \o (IF Len(fs) >= 3 THEN B(fs[3]) ELSE <<>>)
    \o (IF Len(fs) >= 4 THEN B(fs[4]) ELSE <<>>)

FirstFragmentMetadata ==
    /\ Merged.model = log[1].model
    /\ Merged.usage = log[1].usage
    /\ Merged.requestId = log[1].requestId
    /\ Merged.stop_reason = log[1].stop_reason
    /\ Merged.ts = log[1].ts

(* C4 as claimed: the merged message of consecutive fragments f1..fn with  *)
(* one identifier has content(f1) ++ ... ++ content(fn) as content, a      *)
(* plain string counting as one text block, and the model, usage,          *)
(* requestId, stop_reason and timestamp of f1.                             *)
C4_MergedIsConcatenation ==
    pc = "merged" =>
        /\ Len(res.current_assistants) = 1
        /\ Merged.content = CList(Concat3(ClaimedBlocks, log))
        /\ FirstFragmentMetadata

(* C4 as amended: the same, where a non-empty plain string counts as one   *)
(* text block and an empty string or absent content contributes no block.  *)
C4_MergedIsConcatenationOfNonEmpty ==
    pc = "merged" =>
        /\ Len(res.current_assistants) = 1
        /\ Merged.content = CList(Concat3(AmendedBlocks, log))
        /\ FirstFragmentMetadata

C4_Witness ==
    /\ pc = "merged"
    /\ Len(log) = 3
    /\ log[1].content.kind = "list"
    /\ log[2].content.kind = "str"
    /\ log[1].model # log[3].model
    /\ Len(Merged.content.blocks) >= 3

----------------------------------------------------------------------------
(* Compiling one turn: arg is the turn (user_msg, assistant_msgs,          *)
(* tool_results), res the outcome of create_keywordsai_spans.              *)

MaxResults == 2
MaxTurnNum == 2

ReadCall(id) == ToolUseB(id, "Read", InDict("f.py", FcAbsent, "", "{}"))

WriteCall(id, content) == ToolUseB(id, "Write", InDict("f.py", content, "", "{}"))

AsstUsage(id, blocks, usage) ==
    [AsstLine(id, blocks) EXCEPT !.usage = usage]

ResultLine(id, out, ts, tur) ==
    [ToolResultLine(id, out) EXCEPT !.ts = ts, !.tur = tur]

TurnAssistants ==
    {<<AsstLine("m1", <<ThinkB("hm"), BashCall("t1"), ReadCall("t2")>>)>>,
     <<AsstLine("m1", <<BashCall("t1")>>),
       AsstLine("m2", <<ReadCall("t2"), TextB("4")>>)>>,
     <<AsstLine("m1", <<BashCall("t1"), ReadCall("t1")>>)>>,
     <<AsstUsage("m1", <<BashCall("t1")>>, UsageNonMap)>>,
     <<AsstUsage("m1", <<BashCall("t1")>>, Usage(NNull, Num(1), NAbsent, NStr))>>,
     <<AsstLine("m1", <<WriteCall("t1", FcNum)>>)>>,
     <<AsstLine("m1", <<BashCall(Unhashable)>>)>>,
     <<AsstLine("m1", <<ThinkB("a"), BashCall("t1")>>),
       AsstLine("m2", <<ThinkB("b"), ThinkB(""), ThinkB("c"), ReadCall("t2")>>)>>,
     <<AsstLine("m1", <<ThinkB("a"), TextB("4")>>)>>,
     <<AsstLine("m1", <<BashCall(""), ReadCall("t1"), ReadCall("")>>)>>}

TurnResults ==
    {ResultLine("t1", OutStr("o1"), Ts(4), Tur(Num(1500))),
     ResultLine("t2", OutList(<<TextB("a"), ImageB>>), Ts(5), TurNone),
     ResultLine("t1", OutStr("o1b"), Ts(6), Tur(Num(20))),
     ResultLine("t9", OutStr("o9"), Ts(7), TurNone),
     ResultLine("t2", OutStr("o2"), Ts(8), Tur(NStr)),
     ResultLine("t2", OutStr("o2"), Ts(9), TurInt),
     ResultLine("t1", OutStr("o0"), Ts(4), Tur(Num(0))),
     [ResultLine("t1", OutStr("o1"), Ts(5), Tur(Num(300)))
      EXCEPT !.content = CList(<<ToolResB("t1", OutStr("o1")),
                                 ToolResB("t2", OutStr("o2"))>>)]}

InitSpans ==
    /\ \E a \in TurnAssistants, n \in 1..MaxTurnNum :
       \E r \in {<<>>} \cup SeqsUpTo(TurnResults, MaxResults) :
           arg = [turn_num |-> n, user_msg |-> UserLine, assistant_msgs |-> a,
                  tool_results |-> r]
    /\ res = [raised |-> FALSE, spans |-> <<>>]
    /\ pc = "compile"
    /\ log = <<>>
    /\ store = Absent
    /\ sent = <<>>
    /\ last = NoRun

Compile ==
    /\ pc = "compile"
    /\ res' = create_keywordsai_spans(SessionId, arg.turn_num, arg.user_msg,
                                      arg.assistant_msgs, arg.tool_results)
    /\ pc' = "compiled"
    /\ UNCHANGED <<log, store, sent, last, arg>>

NextSpans == Compile

SpecSpans == InitSpans /\ [][NextSpans]_vars

ToolSpansOf(out) == SelectSeq(out.spans, LAMBDA sp : sp.log_type = "tool")

Reorderings(q) ==
    {[i \in 1..Len(q) |-> q[p[i]]] :
        p \in {f \in [1..Len(q) -> 1..Len(q)] :
                  \A i, j \in 1..Len(q) : i # j => f[i] # f[j]}}

CallIds == [i \in 1..Len(AllCalls(arg.assistant_msgs)) |->
               AllCalls(arg.assistant_msgs)[i].id]

DistinctCallIds == \A i, j \in 1..Len(CallIds) : i # j => CallIds[i] # CallIds[j]

(* The tool_result items of the turn's tool-result records *)
ResultItems ==
    {<<i, j>> \in (1..Len(arg.tool_results)) \X (1..2) :
        /\ j <= Len(arg.tool_results[i].content.blocks)
        /\ arg.tool_results[i].content.blocks[j].type = "tool_result"}

ItemAt(ij) == arg.tool_results[ij[1]].content.blocks[ij[2]]

OneResultPerId ==
    \A x, y \in ResultItems : x # y => ItemAt(x).tool_use_id # ItemAt(y).tool_use_id

SameToolSpansInAnyOrder ==
    \A q \in Reorderings(arg.tool_results) :
        ToolSpansOf(create_keywordsai_spans(SessionId, arg.turn_num, arg.user_msg,
                                            arg.assistant_msgs, q))
            = ToolSpansOf(res)

(* C5 as claimed: with pairwise distinct tool-use ids, every order of the  *)
(* turn's tool-result records gives the same tool spans, and each tool     *)
(* span's output is the content of the result with the call's id.          *)
C5_ResultOrderIrrelevant ==
    (pc = "compiled" /\ DistinctCallIds /\ ~res.raised) =>
        /\ SameToolSpansInAnyOrder
        /\ \A k \in 1..Len(CallIds) : \A x \in ResultItems :
               (ItemAt(x).tool_use_id = CallIds[k]
                    /\ ItemAt(x).content.kind = "str")
                   => ToolSpansOf(res)[k].output = ItemAt(x).content.str

(* C5 as amended: the same for a turn in which no two tool_result items    *)
(* carry the same tool_use_id; the output is the result's content as       *)
(* format_tool_output renders it.                                          *)
C5_ResultOrderIrrelevantOneResultPerId ==
    (pc = "compiled" /\ DistinctCallIds /\ OneResultPerId) =>
        /\ SameToolSpansInAnyOrder
        /\ ~res.raised =>
              \A k \in 1..Len(CallIds) : \A x \in ResultItems :
                  ItemAt(x).tool_use_id = CallIds[k]
                      => ToolSpansOf(res)[k].output
                             = format_tool_output("", ItemAt(x).content)

C5_Witness ==
    /\ pc = "compiled"
    /\ ~res.raised
    /\ DistinctCallIds
    /\ Len(arg.tool_results) = 2
    /\ ItemAt(<<1, 1>>).tool_use_id = "t2"
    /\ ItemAt(<<2, 1>>).tool_use_id = "t1"
    /\ Len(ToolSpansOf(res)) = 2
    /\ ToolSpansOf(res)[1].output = "o1"
    /\ ToolSpansOf(res)[2].output = "a\n[Image output]"

(* The distinct tool-use ids in the order of their first occurrence *)
RECURSIVE FirstOccurrences(_, _)
FirstOccurrences(ids, seen) ==
    IF ids = <<>> THEN seen
    ELSE FirstOccurrences(Tail(ids),
             IF \E i \in 1..Len(seen) : seen[i] = Head(ids)
             THEN seen ELSE Append(seen, Head(ids)))

DistinctIds == FirstOccurrences(CallIds, <<>>)

Unresolved(id) == \A x \in ResultItems : ItemAt(x).tool_use_id # id

(* C6: a tool call of a compiled turn without a matching tool result has   *)
(* exactly one tool span, with the empty string as output and with neither *)
(* a latency nor a metadata field.                                         *)
C6_UnresolvedCallSpan ==
    (pc = "compiled" /\ ~res.raised) =>
        /\ Len(ToolSpansOf(res)) = Len(DistinctIds)
        /\ \A k \in 1..Len(DistinctIds) :
               Unresolved(DistinctIds[k]) =>
                   /\ ToolSpansOf(res)[k].output = ""
                   /\ ~ToolSpansOf(res)[k].latency.has
                   /\ ~ToolSpansOf(res)[k].metadata.has

C6_Witness ==
    /\ pc = "compiled"
    /\ ~res.raised
    /\ DistinctIds = <<"t1", "t2">>
    /\ ~Unresolved("t1")
    /\ Unresolved("t2")
    /\ ToolSpansOf(res)[1].latency.has
    /\ ToolSpansOf(res)[2].output = ""

(* C9: create_keywordsai_spans raises for no turn; malformed optional      *)
(* fields are omitted or defaulted.                                        *)
C9_CompilerNeverRaises == pc = "compiled" => ~res.raised


-----------------------------------------------------------------------------
(* main(): one invocation of the hook, from the environment checks to the  *)
(* exit status of the process.                                             *)

MaxMainLog == 2

MainLines == {UserLine, AsstLine("m1", <<TextB("4")>>), BlankLine, InvalidLine,
              ValueLine}

(* The environment of one invocation: the two environment variables, the   *)
(* state file and the projects directory                                   *)
Environments ==
    [enabled : BOOLEAN, api_key : BOOLEAN,
     state_file : {"missing", "corrupt", "ok"},
     projects : {"missing", "nofiles", "file"}]

StoredBefore == Some([last_line |-> 1, turn_count |-> 1])

ExitOk == 0

(* Exit status of the interpreter when an exception leaves main() *)
ExitUncaught == 1

InitMain ==
    /\ log \in {<<>>} \cup SeqsUpTo(MainLines, MaxMainLog)
    /\ arg \in Environments
    /\ store = Absent
    /\ sent = <<>>
    /\ last = NoRun
    /\ res = <<>>
    /\ pc = "start"

Exit(status) ==
    /\ pc' = "exited"
    /\ res' = [exit |-> status]

(* Check if tracing is enabled *)
CheckEnabled ==
    /\ pc = "start"
    /\ IF arg.enabled
       THEN pc' = "key" /\ UNCHANGED res
       ELSE Exit(ExitOk)
    /\ UNCHANGED <<log, store, sent, last, arg>>

(* Check for required environment variables *)
CheckApiKey ==
    /\ pc = "key"
    /\ IF arg.api_key
       THEN pc' = "load" /\ UNCHANGED res
       ELSE Exit(ExitOk)
    /\ UNCHANGED <<log, store, sent, last, arg>>

(* load_state: a missing or undecodable state file reads as {} *)
load_state(state_file) ==
    IF state_file = "ok" THEN StoredBefore ELSE Absent

LoadState ==
    /\ pc = "load"
    /\ store' = load_state(arg.state_file)
    /\ pc' = "find"
    /\ UNCHANGED <<log, sent, last, arg, res>>

(* read_text().split("\n")[0]: the first line, unstripped *)
FirstLine(file) == IF file = <<>> THEN BlankLine ELSE Head(file)

(* find_latest_transcript: "none" for None, "found" for a (session, file)  *)
(* pair, "raised" when the first line parses to a value without .get       *)
find_latest_transcript(projects, file) ==
    IF projects # "file" THEN "none"
    ELSE IF FirstLine(file).json \in {"blank", "invalid"} THEN "none"
    ELSE IF FirstLine(file).json = "value" THEN "raised"
    ELSE "found"

FindLatestTranscript ==
    /\ pc = "find"
    /\ \E result \in {find_latest_transcript(arg.projects, log)} :
          CASE result = "raised" -> Exit(ExitUncaught)
            [] result = "none"   -> Exit(ExitOk)
            [] OTHER              -> pc' = "process" /\ UNCHANGED res
    /\ UNCHANGED <<log, store, sent, last, arg>>

(* process_transcript inside try / except Exception, then sys.exit(0);     *)
(* save_state may fail                                                     *)
ProcessTranscript ==
    /\ pc = "process"
    /\ \E fails \in SUBSET (1..2), outcome \in SaveOutcomes :
          \E r \in {process_and_save(log, store, fails, outcome)} :
              /\ store' = r.store
              /\ sent' = sent \o r.posts
              /\ last' = [end |-> r.end, posts |-> r.posts, before |-> store,
                          total |-> r.total, turns |-> r.turns]
    /\ Exit(ExitOk)
    /\ UNCHANGED <<log, arg>>

NextMain ==
    \/ CheckEnabled
    \/ CheckApiKey
    \/ LoadState
    \/ FindLatestTranscript
    \/ ProcessTranscript

SpecMain == InitMain /\ [][NextMain]_vars

(* C10: every invocation of main() ends with exit status 0: no exception   *)
(* escapes the run, whatever fails during transcript discovery (a first    *)
(* line that is JSON but not an object included), processing, emission or  *)
(* state saving.                                                           *)
C10_AlwaysExitsZero == pc = "exited" => res.exit = ExitOk

-----------------------------------------------------------------------------
(* The turn assembler: users, fragments of two messages, fragments without *)
(* an identifier and tool results, in any order.                           *)

AssembleLines ==
    {UserLine,
     AsstLine("m1", <<TextB("a")>>),
     AsstLine("m2", <<TextB("b")>>),
     AsstLine("", <<TextB("c")>>),
     ToolResultLine("t1", OutStr("ok"))}

NextAssemble == AppendLine(AssembleLines) \/ RunHook

SpecAssemble == Init /\ [][NextAssemble]_vars

IsPlainUser(m) == RoleOf(m) = "user" /\ ~is_tool_result(m)

IsFragment(m) == RoleOf(m) = "assistant"

(* C11: every turn passed to create_keywordsai_spans has one plain user    *)
(* message and at least one merged assistant message, and an assistant     *)
(* fragment follows that user message in the log before the next plain     *)
(* user message: a user message without an assistant message after it is   *)
(* never compiled.                                                         *)
C11_TurnHasUserAndAssistant ==
    \A k \in 1..Len(last.turns) :
        LET t == last.turns[k]
        IN  /\ IsPlainUser(t.user.m)
            /\ log[t.user.i] = t.user.m
            /\ t.assistants # <<>>
            /\ \E j \in (t.user.i + 1)..last.total :
                   /\ IsFragment(log[j])
                   /\ \A h \in (t.user.i + 1)..(j - 1) : ~IsPlainUser(log[h])

(* A run that drops a user message at a turn boundary and another one at   *)
(* the end of the stream, and compiles the turn between them               *)
C11_Witness ==
    /\ Len(last.turns) = 1
    /\ last.turns[1].user.i = 2
    /\ last.total = 4
    /\ IsPlainUser(log[1])
    /\ IsPlainUser(log[4])

(* The lines a run has read beyond its cursor *)
NewLinesOf(run) == SubSeq(log, StoredLastLine(run.before) + 1, run.total)

(* A plain user message, one or more fragments, then nothing or one more   *)
(* plain user message                                                      *)
FragmentsOfOneTurn(ls) ==
    IF Len(ls) > 2 /\ IsPlainUser(ls[Len(ls)])
    THEN SubSeq(ls, 2, Len(ls) - 1) ELSE Tail(ls)

UserThenFragments(ls) ==
    /\ Len(ls) >= 2
    /\ IsPlainUser(ls[1])
    /\ \A i \in 1..Len(FragmentsOfOneTurn(ls)) : IsFragment(FragmentsOfOneTurn(ls)[i])

RECURSIVE TurnBlocks(_)
TurnBlocks(assistants) ==
    IF assistants = <<>> THEN <<>>
    ELSE Head(assistants).content.blocks \o TurnBlocks(Tail(assistants))

(* C12: when the new records of a run are a plain user message followed by *)
(* one or more assistant fragments and then the end of the stream or a     *)
(* next plain user message, the run compiles exactly one turn, whose       *)
(* assistant messages hold the content blocks of every fragment, with or   *)
(* without message identifiers.                                            *)
C12_FragmentsMakeOneTurn ==
    (/\ Ran
     /\ last.end # "noop"
     /\ last.total <= Len(log)
     /\ UserThenFragments(NewLinesOf(last)))
        => /\ Len(last.turns) = 1
           /\ TurnBlocks(last.turns[1].assistants)
                  = MergedContent(FragmentsOfOneTurn(NewLinesOf(last)))

(* The identifiers of the assistant messages of a turn *)
AssistantIds(t) == [i \in 1..Len(t.assistants) |-> t.assistants[i].id]

(* C13 as stated: the assistant messages of a turn have pairwise distinct  *)
(* identifiers, whatever appears between the fragments of one identifier.  *)
C13_OneMessagePerIdentifier ==
    \A k \in 1..Len(last.turns) :
        \A i, j \in 1..Len(last.turns[k].assistants) :
            i # j => AssistantIds(last.turns[k])[i] # AssistantIds(last.turns[k])[j]

(* The lines of a turn: from its user message up to the next plain user    *)
(* message or the end of what the run has read                             *)
TurnEnd(t) ==
    LET later == {j \in (t.user.i + 1)..last.total : IsPlainUser(log[j])}
    IN  IF later = {} THEN last.total
        ELSE (CHOOSE j \in later : \A h \in later : j <= h) - 1

(* The identifiers of the fragments of a turn that carry one, in order,    *)
(* with each run of equal identifiers reduced to one                       *)
RECURSIVE RunsOfIds(_, _)
RunsOfIds(ls, current) ==
    IF ls = <<>> THEN <<>>
    ELSE IF IsFragment(Head(ls)) /\ Head(ls).id # "" /\ Head(ls).id # current
    THEN <<Head(ls).id>> \o RunsOfIds(Tail(ls), Head(ls).id)
    ELSE RunsOfIds(Tail(ls), current)

(* C13, amended: fragments that carry the same identifier and have only    *)
(* tool results or fragments without identifier between them are merged    *)
(* into one assistant message, so no two adjacent assistant messages of a  *)
(* turn have the same identifier; a fragment of another identifier between *)
(* them starts a new message.                                              *)
C13_OneMessagePerRunOfIdentifier ==
    \A k \in 1..Len(last.turns) :
        LET t == last.turns[k]
        IN  /\ AssistantIds(t)
                   = RunsOfIds(SubSeq(log, t.user.i + 1, TurnEnd(t)), "")
            /\ \A i \in 1..(Len(t.assistants) - 1) :
                   AssistantIds(t)[i] # AssistantIds(t)[i + 1]

(* Two fragments of m1 with a tool result between them: one message with   *)
(* the blocks of both                                                      *)
C13_Witness ==
    /\ Len(last.turns) = 1
    /\ Len(last.turns[1].assistants) = 1
    /\ Len(last.turns[1].tool_results) = 1
    /\ Len(last.turns[1].assistants[1].content.blocks) = 2
    /\ IsFragment(log[2])
    /\ IsFragment(log[4])

-----------------------------------------------------------------------------
(* The structure of a compiled span batch *)

SpanIds(spans) == [i \in 1..Len(spans) |-> spans[i].span_unique_id]

(* C14: the batch compiled for turn n has exactly one root span, placed    *)
(* first, with span_unique_id turn_{n}_chat, log_type agent and no parent; *)
(* every other span is a thinking or tool span whose parent is the root    *)
(* and whose trace_unique_id is the root's; the span_unique_ids of the     *)
(* batch are pairwise distinct.                                            *)
C14_OneRootChildrenUnderIt ==
    (pc = "compiled" /\ ~res.raised) =>
        /\ res.spans # <<>>
        /\ res.spans[1].span_unique_id
               = "turn_" \o ToString(arg.turn_num) \o "_chat"
        /\ res.spans[1].log_type = "agent"
        /\ ~res.spans[1].span_parent_id.has
        /\ \A i \in 2..Len(res.spans) :
               /\ res.spans[i].log_type \in {"generation", "tool"}
               /\ res.spans[i].span_parent_id = Some(res.spans[1].span_unique_id)
               /\ res.spans[i].trace_unique_id = res.spans[1].trace_unique_id
        /\ \A i, j \in 1..Len(res.spans) :
               i # j => SpanIds(res.spans)[i] # SpanIds(res.spans)[j]

(* A batch for turn 2 with three thinking spans and two tool spans *)
C14_Witness ==
    /\ pc = "compiled"
    /\ ~res.raised
    /\ arg.turn_num = 2
    /\ Len(res.spans) = 6
    /\ Len(ToolSpansOf(res)) = 2

-----------------------------------------------------------------------------
(* The stored cursor and turn counter over the runs of a session *)

(* C15: no step of a session of non-overlapping runs decreases the stored  *)
(* cursor or the stored turn counter, also when the log has fewer lines    *)
(* than the stored cursor.                                                 *)
C15_StoredNeverDecreases ==
    [][/\ StoredLastLine(store') >= StoredLastLine(store)
       /\ StoredTurnCount(store') >= StoredTurnCount(store)]_vars

(* A run on a log that is shorter than the stored cursor, after a run that *)
(* has emitted a turn                                                      *)
C15_Witness ==
    /\ last.end = "noop"
    /\ StoredLastLine(store) > last.total
    /\ StoredTurnCount(store) > 0

(* C16: after a run that finds at least one line beyond the stored cursor  *)
(* and ends without an exception, the stored cursor is the line count of   *)
(* the log as the run read it, whether or not a turn was emitted and       *)
(* whether or not any new line could be parsed.                            *)
C16_CursorIsLineCount ==
    \A fails \in SUBSET (1..2) :
        (/\ log # <<>>
         /\ StoredLastLine(store) < process_transcript(log, store, fails).total
         /\ process_transcript(log, store, fails).end # "raised")
            => StoredLastLine(process_transcript(log, store, fails).store)
                   = process_transcript(log, store, fails).total

-----------------------------------------------------------------------------
(* The latency of the root span: a turn of one or two assistant messages,  *)
(* with every kind of timestamp on the user message and on the assistant   *)
(* messages.                                                               *)

TimestampValues == {TsNone, TsBad, Ts(0), Ts(3), TsNaive(7)}

UserAt(ts) == [UserLine EXCEPT !.ts = ts]

AsstAt(id, ts) == [AsstLine(id, <<TextB("4")>>) EXCEPT !.ts = ts]

InitLatency ==
    /\ \E u \in TimestampValues, a \in TimestampValues :
       \E later \in {<<>>} \cup {<<AsstAt("m2", b)>> : b \in TimestampValues} :
           arg = [turn_num |-> 1, user_msg |-> UserAt(u),
                  assistant_msgs |-> <<AsstAt("m1", a)>> \o later,
                  tool_results |-> <<>>]
    /\ res = [raised |-> FALSE, spans |-> <<>>]
    /\ pc = "compile"
    /\ log = <<>>
    /\ store = Absent
    /\ sent = <<>>
    /\ last = NoRun

SpecLatency == InitLatency /\ [][NextSpans]_vars

BothParse ==
    /\ parse_timestamp(arg.user_msg.ts).has
    /\ parse_timestamp(arg.assistant_msgs[1].ts).has

(* C17: the root span has a latency field exactly when the timestamps of   *)
(* the user message and of the first assistant message both parse, and     *)
(* then the latency is the first assistant time minus the user time in     *)
(* seconds, whatever the timestamps of later assistant messages.           *)
C17_RootLatencyIffBothParse ==
    pc = "compiled" =>
        /\ ~res.raised
        /\ res.spans[1].latency.has <=> BothParse
        /\ BothParse =>
               res.spans[1].latency.v
                   = arg.assistant_msgs[1].ts.t - arg.user_msg.ts.t

-----------------------------------------------------------------------------
(* format_tool_output on string outputs whose length is around max_length  *)

Margin == 12

(* The string of n copies of c *)
RECURSIVE Repeat(_, _)
Repeat(c, n) ==
    IF n = 0 THEN ""
    ELSE IF n % 2 = 0
    THEN Bind(Repeat(c, n \div 2), LAMBDA h : h \o h)
    ELSE c \o Repeat(c, n - 1)

(* A string of the given length that ends with a character of its own *)
StringOfLength(c, n) == IF n = 0 THEN "" ELSE Repeat(c, n - 1) \o "$"

OutputLengths == {0, 1} \cup ((max_length - Margin)..(max_length + Margin))

InitTruncate ==
    /\ \E n \in OutputLengths, c \in {"a", "b"}, tool \in {"Bash", "Read"} :
           arg = [tool_name |-> tool, tool_output |-> OutStr(StringOfLength(c, n))]
    /\ res = ""
    /\ pc = "format"
    /\ log = <<>>
    /\ store = Absent
    /\ sent = <<>>
    /\ last = NoRun

Format ==
    /\ pc = "format"
    /\ res' = format_tool_output(arg.tool_name, arg.tool_output)
    /\ pc' = "formatted"
    /\ UNCHANGED <<log, store, sent, last, arg>>

NextTruncate == Format

SpecTruncate == InitTruncate /\ [][NextTruncate]_vars

(* C18: a string output of at most 4000 characters is returned as it is;   *)
(* a longer one is returned as its first 4000 characters followed by the   *)
(* truncation marker.                                                      *)
C18_TruncatedAbove4000 ==
    pc = "formatted" =>
        IF Len(arg.tool_output.str) <= 4000
        THEN res = arg.tool_output.str
        ELSE /\ res = SubSeq(arg.tool_output.str, 1, 4000) \o "\n... (truncated)"
             /\ Len(res) = 4000 + Len("\n... (truncated)")

(* A string of 4001 characters has been truncated *)
C18_Witness ==
    /\ pc = "formatted"
    /\ Len(arg.tool_output.str) = 4001
    /\ Len(res) > 4001
    /\ res # arg.tool_output.str

-----------------------------------------------------------------------------
(* Two invocations for the same session that may overlap.  Each runs once: *)
(* it loads the state file, later reads the transcript and POSTs its       *)
(* turns, and later saves the state; the transcript may grow in between.   *)
(* arg holds, per                                                          *)
(* invocation, where it is, the state it loaded and the outcome of its     *)
(* processing; res lists the saves in the order they happened.             *)

Procs == {1, 2}

Idle == [at |-> "idle", loaded |-> Absent, out |-> NoRun]

Done == [at |-> "done", loaded |-> Absent, out |-> NoRun]

InitOverlap ==
    /\ log = <<>>
    /\ store = Absent
    /\ sent = <<>>
    /\ last = NoRun
    /\ arg = [p \in Procs |-> Idle]
    /\ res = <<>>
    /\ pc = "session"

(* main: state = load_state() *)
Load(p) ==
    /\ pc = "session"
    /\ arg[p].at = "idle"
    /\ arg' = [arg EXCEPT ![p] = [at |-> "loaded", loaded |-> store, out |-> NoRun]]
    /\ UNCHANGED <<log, store, sent, last, res, pc>>

(* process_transcript up to save_state: an invocation that returns early   *)
(* or raises ends without saving                                           *)
Process(p) ==
    /\ pc = "session"
    /\ arg[p].at = "loaded"
    /\ \E fails \in SUBSET (1..1) :
          \E r \in {process_transcript(log, arg[p].loaded, fails)} :
              /\ sent' = sent \o r.posts
              /\ arg' = [arg EXCEPT ![p] =
                            IF r.end = "saved"
                            THEN [at |-> "processed", loaded |-> arg[p].loaded,
                                  out |-> r]
                            ELSE Done]
    /\ UNCHANGED <<log, store, last, res, pc>>

(* Mutant: a save keeps the stored state when its cursor is larger *)
WrittenUnlessOlder(current, out) ==
    IF StoredLastLine(current) > StoredLastLine(out.store) THEN current
    ELSE out.store

(* save_state: the file holds what this invocation computed, whatever it   *)
(* held before                                                             *)
Written(current, out) == out.store

Save(p) ==
    /\ pc = "session"
    /\ arg[p].at = "processed"
    /\ store' = Written(store, arg[p].out)
    /\ res' = Append(res, [p |-> p, wrote |-> arg[p].out.store,
                           turns |-> arg[p].out.turns])
    /\ arg' = [arg EXCEPT ![p] = Done]
    /\ UNCHANGED <<log, sent, last, pc>>

NextOverlap ==
    \/ AppendLine({UserLine, AsstLine("m1", <<TextB("4")>>)})
    \/ \E p \in Procs : Load(p)
    \/ \E p \in Procs : Process(p)
    \/ \E p \in Procs : Save(p)

SpecOverlap == InitOverlap /\ [][NextOverlap]_vars

(* C19: with overlapping invocations the stored state is always the one    *)
(* written by the invocation that saved last, computed from the state that *)
(* invocation had loaded; it can hold a smaller cursor and turn counter    *)
(* than another invocation wrote, and both invocations can emit the same   *)
(* turn with the same turn number (the witness).                           *)
C19_LastWriterWins ==
    store = IF res = <<>> THEN Absent ELSE res[Len(res)].wrote

(* Both invocations loaded the state before either saved; both compiled    *)
(* the turn of the first user message as turn 1, and the one that saved    *)
(* last left a smaller cursor and turn counter than the other had written  *)
C19_Witness ==
    /\ Len(res) = 2
    /\ res[1].p # res[2].p
    /\ res[1].turns # <<>>
    /\ res[2].turns # <<>>
    /\ res[1].turns[1].user.i = res[2].turns[1].user.i
    /\ res[1].turns[1].turn_num = res[2].turns[1].turn_num
    /\ \E i, j \in 1..Len(sent) :
           /\ i # j
           /\ sent[i].user = sent[j].user
           /\ sent[i].turn_num = sent[j].turn_num
    /\ store = res[2].wrote
    /\ StoredLastLine(store) < StoredLastLine(res[1].wrote)
    /\ StoredTurnCount(store) < StoredTurnCount(res[1].wrote)

-----------------------------------------------------------------------------
(* A session in which save_state may fail *)

RunHookSave ==
    /\ pc = "session"
    /\ Len(sent) < MaxSent
    /\ \E fails \in SUBSET (1..2), outcome \in SaveOutcomes :
          \E r \in {process_and_save(log, store, fails, outcome)} :
              /\ store' = r.store
              /\ sent' = sent \o r.posts
              /\ last' = [end |-> r.end, posts |-> r.posts, before |-> store,
                          total |-> r.total, turns |-> r.turns]
    /\ UNCHANGED <<log, arg, res, pc>>

NextSaveFail ==
    AppendLine({UserLine, AsstLine("m1", <<TextB("4")>>)}) \/ RunHookSave

SpecSaveFail == Init /\ [][NextSaveFail]_vars

(* The turns the next run compiles over the log as the last run read it *)
NextRunTurns(fails) ==
    process_transcript(SubSeq(log, 1, last.total), store, fails).turns

EmittedButNotSaved == last.end = "savefailed" /\ last.turns # <<>>

(* C20 as stated: after a run that emitted turns and whose save failed,    *)
(* the stored cursor and turn counter are those from before the run, and   *)
(* the next run over the same log compiles the same turns with the same    *)
(* turn numbers.                                                           *)
C20_FailedSaveKeepsState ==
    EmittedButNotSaved =>
        /\ store = last.before
        /\ \A fails \in SUBSET (1..2) : NextRunTurns(fails) = last.turns

(* The turn of the next run that starts with the same user message *)
SameTurnLater(t, turns) ==
    \E k \in 1..Len(turns) :
        /\ turns[k].user = t.user
        /\ turns[k].assistants = t.assistants
        /\ turns[k].tool_results = t.tool_results

(* C20, amended: if the save failed without touching the state file, the   *)
(* stored cursor and turn counter are those from before the run and the    *)
(* next run over the same log compiles the same turns with the same turn   *)
(* numbers; if the save failed after the file was opened for writing, no   *)
(* state is stored any more, and the next run starts at line 0 with turn   *)
(* counter 0 and compiles the same turns among those it numbers from 1.    *)
C20_FailedSaveKeepsOrLosesState ==
    EmittedButNotSaved =>
        /\ store \in {last.before, Absent}
        /\ store = last.before =>
               \A fails \in SUBSET (1..2) : NextRunTurns(fails) = last.turns
        /\ store = Absent =>
               /\ \A k \in 1..Len(last.turns) :
                      SameTurnLater(last.turns[k], NextRunTurns({}))
               /\ \A k \in 1..Len(NextRunTurns({})) :
                      NextRunTurns({})[k].turn_num = k

(* A run that emitted turn 2 and whose save failed leaving the file as it  *)
(* was: cursor 2 and turn counter 1 are still stored                       *)
C20_Witness ==
    /\ EmittedButNotSaved
    /\ store = last.before
    /\ StoredLastLine(store) = 2
    /\ StoredTurnCount(store) = 1
    /\ last.turns[1].turn_num = 2
    /\ NextRunTurns({}) = last.turns

-----------------------------------------------------------------------------
(* What a run leaves behind for the runs after it *)

(* The last plain user message among the first n lines, 0 if there is none *)
LastUser(n) ==
    LET users == {j \in 1..n : IsPlainUser(log[j])}
    IN  IF users = {} THEN 0 ELSE CHOOSE j \in users : \A h \in users : h <= j

(* The last run read a plain user message that no assistant fragment       *)
(* follows                                                                 *)
DanglingUser ==
    /\ last.end = "saved"
    /\ last.total <= Len(log)
    /\ LastUser(last.total) > 0
    /\ last.before.has => LastUser(last.total) > last.before.v.last_line
    /\ \A j \in (LastUser(last.total) + 1)..last.total : ~IsFragment(log[j])

FragmentLines(from, to) == {j \in from..to : IsFragment(log[j])}

(* C21: a run that ends with a dangling plain user message stores the line *)
(* count as cursor and does not count the message as a turn; and no run    *)
(* compiles a turn whose user message lies at or before the cursor it      *)
(* started from, or whose assistant messages come from lines before its    *)
(* user message: the dangling message and the fragments appended after it  *)
(* are in no later turn.                                                   *)
C21_DanglingUserIsLost ==
    /\ DanglingUser =>
           /\ store.has
           /\ store.v.last_line = last.total
           /\ store.v.turn_count
                  = (IF last.before.has THEN last.before.v.turn_count ELSE 0)
                        + Len(last.turns)
           /\ \A k \in 1..Len(last.turns) :
                  last.turns[k].user.i # LastUser(last.total)
    /\ \A k \in 1..Len(last.turns) :
           LET t == last.turns[k]
           IN  /\ last.before.has => t.user.i > last.before.v.last_line
               /\ AssistantIds(t)
                      = RunsOfIds(SubSeq(log, t.user.i + 1, TurnEnd(t)), "")
               /\ Len(TurnBlocks(t.assistants))
                      <= Cardinality(FragmentLines(t.user.i + 1, TurnEnd(t)))

(* The first run consumed a lone user message; the second one has consumed *)
(* the fragment appended after it, and a later complete turn of the log    *)
(* is the only one sent                                                    *)
C21_Witness ==
    /\ Len(log) = 4
    /\ IsPlainUser(log[1])
    /\ IsFragment(log[2])
    /\ IsPlainUser(log[3])
    /\ IsFragment(log[4])
    /\ last.before.has
    /\ last.before.v.last_line = 2
    /\ last.before.v.turn_count = 0
    /\ Len(last.turns) = 1
    /\ last.turns[1].user.i = 3
    /\ last.turns[1].turn_num = 1
    /\ Len(sent) = 1

----------------------------------------------------------------------------
(* The message loop of process_transcript, one record at a time: res is    *)
(* the loop's state (current_user, current_assistants, ...), log the       *)
(* records read so far; turn_count is 0                                    *)

MaxFed == 4

NoRoleLine ==
    Obj("", "object", "", "", CNone, TsNone, UsageNone, TurNone)

BadMessageLine ==
    Obj("", "other", "", "", CNone, TsNone, UsageNone, TurNone)

OtherLines == {SystemLine, NoRoleLine, BadMessageLine}

StepLines == AssembleLines \cup OtherLines

InitStep ==
    /\ log = <<>>
    /\ store = Absent
    /\ sent = <<>>
    /\ last = NoRun
    /\ arg = <<>>
    /\ res = LoopInit
    /\ pc = "loop"

(* One iteration of: for msg in new_messages *)
FeedLine ==
    /\ pc = "loop"
    /\ ~res.raised
    /\ Len(log) < MaxFed
    /\ \E l \in StepLines, fails \in SUBSET (1..2) :
          /\ log' = Append(log, l)
          /\ res' = Step(res, [i |-> Len(log) + 1, m |-> l], 0, fails)
    /\ UNCHANGED <<store, sent, last, arg, pc>>

(* Process final turn *)
EndOfStream ==
    /\ pc = "loop"
    /\ \E fails \in SUBSET (1..2) : res' = FinalTurn(res, 0, fails)
    /\ pc' = "done"
    /\ UNCHANGED <<log, store, sent, last, arg>>

NextStep == FeedLine \/ EndOfStream

SpecStep == InitStep /\ [][NextStep]_vars

Fed == log'[Len(log')]

FeedStep == pc = "loop" /\ pc' = "loop" /\ Len(log') = Len(log) + 1

(* C22: when a plain user message is read while the open turn has a user   *)
(* message and, once the identified message in progress (if any) has been  *)
(* finalized, no assistant message, the earlier user message is dropped:    *)
(* nothing is compiled or posted, the turn counter stays, the tool results *)
(* collected so far and the unfinalized fragments are discarded, and the   *)
(* open turn is the later user message alone.                              *)
C22_UnansweredUserIsDropped ==
    [][(/\ FeedStep
        /\ IsPlainUser(Fed)
        /\ res.current_user.has
        /\ res.current_assistants = <<>>
        /\ (res.current_msg_id = "" \/ res.current_assistant_parts = <<>>))
       => /\ ~res'.raised
          /\ res'.posts = res.posts
          /\ res'.compiled = res.compiled
          /\ res'.turns_processed = res.turns_processed
          /\ res'.current_user = Some([i |-> Len(log'), m |-> Fed])
          /\ res'.current_tool_results = <<>>
          /\ res'.current_assistants = <<>>
          /\ res'.current_assistant_parts = <<>>
          /\ res'.current_msg_id = ""]_vars

C22_Witness ==
    /\ pc = "loop"
    /\ Len(log) = 3
    /\ IsPlainUser(log[1])
    /\ is_tool_result(log[2])
    /\ IsPlainUser(log[3])
    /\ res.current_user = Some([i |-> 3, m |-> log[3]])
    /\ res.current_tool_results = <<>>
    /\ res.compiled = <<>>
    /\ res.turns_processed = 0

LastOther(n) ==
    LET others == {j \in 1..n : ~(RoleOf(log[j]) = "user" /\ is_tool_result(log[j]))}
    IN  IF others = {} THEN 0
        ELSE CHOOSE j \in others : \A h \in others : h <= j

(* C23: reading a user record that carries a tool_result item changes the  *)
(* loop's state in one place only, the record is appended to               *)
(* current_tool_results: nothing is compiled, no turn is started, the      *)
(* message in progress stays in progress and the turn counter stays; a     *)
(* fragment that follows tool-result records and has the identifier of the *)
(* message in progress before them is appended to that message's parts.    *)
C23_ToolResultOnlyAppended ==
    [][/\ (FeedStep /\ Fed = ToolResultLine("t1", OutStr("ok")))
          => res' = [res EXCEPT !.current_tool_results = Append(@, Fed)]
       /\ (/\ FeedStep
           /\ IsFragment(Fed)
           /\ Fed.id # ""
           /\ LastOther(Len(log)) > 0
           /\ IsFragment(log[LastOther(Len(log))])
           /\ log[LastOther(Len(log))].id = Fed.id)
          => /\ res'.current_assistant_parts =
                    Append(res.current_assistant_parts, Fed)
             /\ res'.current_assistants = res.current_assistants
             /\ res'.current_msg_id = res.current_msg_id]_vars

C23_Witness ==
    /\ pc = "loop"
    /\ Len(log) = 4
    /\ IsPlainUser(log[1])
    /\ log[2] = AsstLine("m1", <<TextB("a")>>)
    /\ log[3] = ToolResultLine("t1", OutStr("ok"))
    /\ log[4] = log[2]
    /\ res.current_assistant_parts = <<log[2], log[4]>>
    /\ res.current_tool_results = <<log[3]>>
    /\ res.current_assistants = <<>>
    /\ res.turns_processed = 0

(* C24: reading a record whose type/role is neither user nor assistant     *)
(* leaves the loop's state unchanged.                                      *)
C24_OtherRecordsIgnored ==
    [][(FeedStep /\ Fed \in OtherLines) => res' = res]_vars

(* The records of another type that name their type, or have no message,  *)
(* are ignored                                                             *)
C24_TypedRecordsIgnored ==
    [][(FeedStep /\ Fed \in {SystemLine, NoRoleLine}) => res' = res]_vars

----------------------------------------------------------------------------
(* Tool results that arrive after the run that emitted their turn *)

OnlyToolResultsRead ==
    /\ last.before.has
    /\ last.before.v.last_line >= 1
    /\ last.before.v.last_line < last.total
    /\ last.total <= Len(log)
    /\ \A j \in (last.before.v.last_line + 1)..last.total :
          log[j] = ToolResultLine("t1", OutStr("ok"))

(* C25: a run starts with no turn in progress: a run whose new records are *)
(* all tool-result records (their turn was read, and emitted or dropped,   *)
(* by an earlier run) compiles no turn and posts nothing, so the result is *)
(* attached to no span and the turn emitted earlier is not emitted again;  *)
(* the run only moves the cursor.                                          *)
C25_LateToolResultIsLost ==
    OnlyToolResultsRead =>
        /\ last.end = "saved"
        /\ last.turns = <<>>
        /\ last.posts = <<>>
        /\ store = Some([last_line |-> last.total,
                         turn_count |-> last.before.v.turn_count])

C25_Witness ==
    /\ Len(log) = 3
    /\ log[1] = UserLine
    /\ log[2] = AsstLine("m1", <<ThinkB("hm"), BashCall("t1")>>)
    /\ log[3] = ToolResultLine("t1", OutStr("ok"))
    /\ last.before = Some([last_line |-> 2, turn_count |-> 1])
    /\ last.total = 3
    /\ last.turns = <<>>
    /\ Len(sent) = 1
    /\ sent[1].user = 1
    /\ store = Some([last_line |-> 3, turn_count |-> 1])

----------------------------------------------------------------------------
(* Tool spans and the tool results of the turn *)

(* The turn's tool-result records that carry a result for one of the       *)
(* turn's tool calls                                                       *)
MatchingResults ==
    SelectSeq(arg.tool_results,
        LAMBDA tr : \E j \in 1..Len(tr.content.blocks) :
            /\ tr.content.blocks[j].type = "tool_result"
            /\ \E k \in 1..Len(CallIds) : CallIds[k] = tr.content.blocks[j].tool_use_id)

(* C26: every tool span of a compiled turn stems from a tool_use block of  *)
(* the turn's assistant messages (there is one span per distinct id of     *)
(* those blocks, with the name and input of a block with that id); a span  *)
(* has the empty output when no result of the turn has its id and          *)
(* otherwise the output and the timestamp of one and the same result with  *)
(* its id; the results whose tool_use_id matches no call of the turn add   *)
(* no span and change no span: without them the batch is the same.         *)
C26_ResultsOnlyFillOwnCalls ==
    (pc = "compiled" /\ ~res.raised) =>
        /\ Len(ToolSpansOf(res)) = Len(DistinctIds)
        /\ \A k \in 1..Len(DistinctIds) :
              /\ \E i \in 1..Len(AllCalls(arg.assistant_msgs)) :
                    LET call == AllCalls(arg.assistant_msgs)[i]
                    IN  /\ call.id = DistinctIds[k]
                        /\ ToolSpansOf(res)[k].span_name = "Tool: " \o call.name
                        /\ ToolSpansOf(res)[k].input
                               = format_tool_input(call.name, call.input)
              /\ IF Unresolved(DistinctIds[k])
                 THEN ToolSpansOf(res)[k].output = ""
                 ELSE \E x \in ResultItems :
                         /\ ItemAt(x).tool_use_id = DistinctIds[k]
                         /\ ToolSpansOf(res)[k].output
                                = format_tool_output("", ItemAt(x).content)
                         /\ ToolSpansOf(res)[k].timestamp
                                = arg.tool_results[x[1]].ts
        /\ create_keywordsai_spans(SessionId, arg.turn_num, arg.user_msg,
                                   arg.assistant_msgs, MatchingResults) = res

C26_Witness ==
    /\ pc = "compiled"
    /\ ~res.raised
    /\ DistinctIds = <<"t1", "t2">>
    /\ Len(arg.tool_results) = 2
    /\ ItemAt(<<1, 1>>).tool_use_id = "t9"
    /\ ItemAt(<<2, 1>>).tool_use_id = "t1"
    /\ Len(ToolSpansOf(res)) = 2
    /\ ToolSpansOf(res)[1].output = "o1"
    /\ ToolSpansOf(res)[2].output = ""

----------------------------------------------------------------------------
(* Thinking spans *)

ThinkingSpansOf(out) == SelectSeq(out.spans, LAMBDA sp : sp.log_type = "generation")

(* The texts of the thinking blocks of the turn's assistant messages, in   *)
(* encounter order                                                         *)
RECURSIVE ThinkingTexts(_)
ThinkingTexts(msgs) ==
    IF msgs = <<>> THEN <<>>
    ELSE LET th == IF Head(msgs).content.kind = "list"
                   THEN SelectSeq(Head(msgs).content.blocks,
                                  LAMBDA b : b.type = "thinking")
                   ELSE <<>>
         IN  [i \in 1..Len(th) |-> th[i].thinking] \o ThinkingTexts(Tail(msgs))

NoToolUse ==
    \A m \in 1..Len(arg.assistant_msgs) :
        \A b \in 1..Len(arg.assistant_msgs[m].content.blocks) :
            arg.assistant_msgs[m].content.blocks[b].type # "tool_use"

ThinkingSpansAre(texts) ==
    /\ Len(ThinkingSpansOf(res)) = Len(texts)
    /\ \A i \in 1..Len(texts) :
          /\ ThinkingSpansOf(res)[i].span_unique_id
                 = "turn_" \o ToString(arg.turn_num) \o "_thinking_" \o ToString(i)
          /\ ThinkingSpansOf(res)[i].span_name = "Thinking " \o ToString(i)
          /\ ThinkingSpansOf(res)[i].input = ""
          /\ ThinkingSpansOf(res)[i].output = texts[i]

(* C27 as claimed: the batch has one thinking span per thinking block of   *)
(* the turn's assistant messages, the i-th block giving the span           *)
(* turn_{n}_thinking_{i} named "Thinking i" with empty input and the       *)
(* block's text as output; a turn without tool_use blocks has no tool span.*)
C27_OneSpanPerThinkingBlock ==
    (pc = "compiled" /\ ~res.raised) =>
        /\ ThinkingSpansAre(ThinkingTexts(arg.assistant_msgs))
        /\ NoToolUse => ToolSpansOf(res) = <<>>

(* C27 as amended: the same, counting only the thinking blocks whose text  *)
(* is not empty.                                                           *)
C27_OneSpanPerNonEmptyThinkingBlock ==
    (pc = "compiled" /\ ~res.raised) =>
        /\ ThinkingSpansAre(SelectSeq(ThinkingTexts(arg.assistant_msgs),
                                      LAMBDA t : t # ""))
        /\ NoToolUse => ToolSpansOf(res) = <<>>

C27_Witness ==
    /\ pc = "compiled"
    /\ ~res.raised
    /\ ThinkingTexts(arg.assistant_msgs) = <<"a", "b", "", "c">>
    /\ Len(ThinkingSpansOf(res)) = 3
    /\ ThinkingSpansOf(res)[3].output = "c"
    /\ ThinkingSpansOf(res)[3].span_name = "Thinking 3"

----------------------------------------------------------------------------
(* Tool spans and tool-use identifiers *)

(* The last tool_use block of the turn with the identifier id *)
LastCallWith(id) ==
    LET calls == AllCalls(arg.assistant_msgs)
        at == {i \in 1..Len(calls) : calls[i].id = id}
    IN  calls[CHOOSE i \in at : \A j \in at : j <= i]

(* C28: the batch has one tool span per distinct tool-use identifier of    *)
(* the turn's assistant messages, the k-th identifier in order of first    *)
(* occurrence giving the span turn_{n}_tool_{k}; tool_use blocks with the  *)
(* same identifier (the empty one for blocks without id) give one span,    *)
(* which shows the name and the input of the last of them.                 *)
C28_OneToolSpanPerIdentifier ==
    (pc = "compiled" /\ ~res.raised) =>
        /\ Len(ToolSpansOf(res)) = Len(DistinctIds)
        /\ \A k \in 1..Len(DistinctIds) :
              /\ ToolSpansOf(res)[k].span_unique_id
                     = "turn_" \o ToString(arg.turn_num) \o "_tool_" \o ToString(k)
              /\ ToolSpansOf(res)[k].span_name
                     = "Tool: " \o LastCallWith(DistinctIds[k]).name
              /\ ToolSpansOf(res)[k].input
                     = format_tool_input(LastCallWith(DistinctIds[k]).name,
                                         LastCallWith(DistinctIds[k]).input)

C28_Witness ==
    /\ pc = "compiled"
    /\ ~res.raised
    /\ CallIds = <<"", "t1", "">>
    /\ arg.turn_num = 2
    /\ Len(ToolSpansOf(res)) = 2
    /\ ToolSpansOf(res)[1].span_name = "Tool: Read"
    /\ ToolSpansOf(res)[2].span_unique_id = "turn_2_tool_2"

----------------------------------------------------------------------------
(* Turns with several assistant messages that differ in text, model,       *)
(* usage, request id, stop reason and timestamp                            *)

MaxMsgs == 3

RootMsg(id, blocks, ts, model, usage, rid, stop) ==
    [AsstLine(id, blocks) EXCEPT !.ts = ts, !.model = model, !.usage = usage,
                                 !.requestId = rid, !.stop_reason = stop]

RootMessages ==
    {RootMsg("m1", <<ThinkB("p"), TextB("x"), BashCall("t1")>>, Ts(3), Some("ma"),
             Usage(Num(2), Num(1), NAbsent, NAbsent), Some("r1"), Some("tool_use")),
     RootMsg("m2", <<ReadCall("t2")>>, Ts(4), Some("mb"),
             Usage(Num(5), Num(4), NAbsent, NAbsent), Some("r2"), Some("tool_use")),
     RootMsg("m3", <<ThinkB("q"), TextB("y")>>, Ts(5), Absent,
             UsageNone, Absent, Some("end_turn")),
     RootMsg("m4", <<TextB("z"), BashCall("t4")>>, TsNone, Some("md"),
             Usage(Num(7), Num(6), NAbsent, NAbsent), Some("r4"), Absent)}

RootResults ==
    {<<>>,
     <<ResultLine("t1", OutStr("o1"), Ts(6), TurNone)>>,
     <<ResultLine("t2", OutStr("o2"), TsNone, TurNone)>>}

InitRoot ==
    /\ \E a \in SeqsUpTo(RootMessages, MaxMsgs), r \in RootResults :
           arg = [turn_num |-> 1, user_msg |-> UserLine, assistant_msgs |-> a,
                  tool_results |-> r]
    /\ res = [raised |-> FALSE, spans |-> <<>>]
    /\ pc = "compile"
    /\ log = <<>>
    /\ store = Absent
    /\ sent = <<>>
    /\ last = NoRun

SpecRoot == InitRoot /\ [][NextSpans]_vars

Root == res.spans[1]

FirstMsg == arg.assistant_msgs[1]

LastMsg == arg.assistant_msgs[Len(arg.assistant_msgs)]

LastTexts == SelectSeq(LastMsg.content.blocks, LAMBDA b : b.type = "text")

(* C29: the root span's output is the text of the last assistant message   *)
(* (empty when that message has no text block); its model, token counts,   *)
(* request id, stop reason and timestamp are those of the first assistant  *)
(* message; nothing else of the assistant messages reaches the root span:  *)
(* it is the root span of a turn whose only assistant message has the      *)
(* first message's fields and the last message's content.                  *)
C29_RootFromFirstAndLast ==
    (pc = "compiled" /\ ~res.raised) =>
        /\ Root.log_type = "agent"
        /\ Root.output = IF LastTexts = <<>> THEN ""
                         ELSE CompletionJson(LastTexts[1].text)
        /\ Root.model = IF FirstMsg.model.has THEN FirstMsg.model.v ELSE "claude"
        /\ Root.prompt_tokens = IF FirstMsg.usage.kind = "map"
                                THEN Some(FirstMsg.usage.input_tokens.v) ELSE Absent
        /\ Root.completion_tokens = IF FirstMsg.usage.kind = "map"
                                    THEN Some(FirstMsg.usage.output_tokens.v)
                                    ELSE Absent
        /\ Root.metadata.v.request_id = FirstMsg.requestId
        /\ Root.metadata.v.stop_reason = FirstMsg.stop_reason
        /\ Root.timestamp = IF FirstMsg.ts = TsNone THEN TsNow ELSE FirstMsg.ts
        /\ Root = create_keywordsai_spans(SessionId, arg.turn_num, arg.user_msg,
                      <<[FirstMsg EXCEPT !.content = LastMsg.content]>>,
                      <<>>).spans[1]
        /\ \A i \in 2..Len(res.spans) : res.spans[i].log_type \in {"generation", "tool"}

C29_Witness ==
    /\ pc = "compiled"
    /\ ~res.raised
    /\ Len(arg.assistant_msgs) = 3
    /\ FirstMsg.id = "m1"
    /\ arg.assistant_msgs[2].id = "m3"
    /\ LastMsg.id = "m2"
    /\ Root.output = ""
    /\ Root.model = "ma"
    /\ Root.timestamp = Ts(3)
    /\ Len(ThinkingSpansOf(res)) = 2
    /\ Len(ToolSpansOf(res)) = 2

----------------------------------------------------------------------------
(* The times of a tool span whose call has no result *)

(* C30: for a tool call without a correlated result, the tool span's       *)
(* start_time is the timestamp of the assistant message that contains the  *)
(* call and its timestamp is the turn's timestamp, that of the first       *)
(* assistant message, also for a call in a later assistant message.        *)
C30_UnresolvedCallTimes ==
    (pc = "compiled" /\ ~res.raised) =>
        \A k \in 1..Len(DistinctIds) :
            (Unresolved(DistinctIds[k])
                 /\ LastCallWith(DistinctIds[k]).timestamp # TsNone)
                => /\ ToolSpansOf(res)[k].start_time
                          = LastCallWith(DistinctIds[k]).timestamp
                   /\ ToolSpansOf(res)[k].timestamp = Root.timestamp

(* C30 as amended: for a tool call without a correlated result, start_time *)
(* and timestamp of the tool span are both the timestamp of the assistant  *)
(* message that contains the call; only when that message has no timestamp *)
(* are they the turn's start_time and the turn's timestamp.                *)
C30_UnresolvedCallOwnTimes ==
    (pc = "compiled" /\ ~res.raised) =>
        \A k \in 1..Len(DistinctIds) :
            Unresolved(DistinctIds[k]) =>
                IF LastCallWith(DistinctIds[k]).timestamp # TsNone
                THEN /\ ToolSpansOf(res)[k].start_time
                            = LastCallWith(DistinctIds[k]).timestamp
                     /\ ToolSpansOf(res)[k].timestamp
                            = LastCallWith(DistinctIds[k]).timestamp
                ELSE /\ ToolSpansOf(res)[k].start_time = Root.start_time
                     /\ ToolSpansOf(res)[k].timestamp = Root.timestamp

C30_Witness ==
    /\ pc = "compiled"
    /\ ~res.raised
    /\ Len(arg.assistant_msgs) = 2
    /\ FirstMsg.id = "m1"
    /\ LastMsg.id = "m2"
    /\ arg.tool_results = <<>>
    /\ DistinctIds = <<"t1", "t2">>
    /\ Root.timestamp = Ts(3)
    /\ ToolSpansOf(res)[2].start_time = Ts(4)
    /\ ToolSpansOf(res)[2].timestamp = Ts(4)

----------------------------------------------------------------------------
(* format_tool_output on a list of content blocks near the 4000-character  *)
(* budget                                                                  *)

MaxBlocks == 3

BudgetBlocks ==
    {TextB(StringOfLength("a", 1)),
     TextB(StringOfLength("b", 150)),
     TextB(StringOfLength("c", 3900)),
     TextB(StringOfLength("d", 3950)),
     StrItem(StringOfLength("e", 150)),
     StrItem(StringOfLength("f", 3950)),
     ImageB,
     OtherB(StringOfLength("g", 600))}

InitBudget ==
    /\ \E items \in SeqsUpTo(BudgetBlocks, MaxBlocks) :
           arg = [tool_name |-> "Bash", tool_output |-> OutList(items)]
    /\ res = ""
    /\ pc = "format"
    /\ log = <<>>
    /\ store = Absent
    /\ sent = <<>>
    /\ last = NoRun

SpecBudget == InitBudget /\ [][NextTruncate]_vars

BlockLen(b) ==
    IF b.type \in {"text", "str"} THEN Len(b.text)
    ELSE IF b.type = "other" THEN (IF Len(b.repr) > 500 THEN 500 ELSE Len(b.repr))
    ELSE 0

RECURSIVE LengthBefore(_, _)
LengthBefore(items, k) ==
    IF k <= 1 THEN 0 ELSE LengthBefore(items, k - 1) + BlockLen(items[k - 1])

(* The text or string blocks that do not fit the budget when they are read *)
Overflowing(items) ==
    {k \in 1..Len(items) :
        /\ items[k].type \in {"text", "str"}
        /\ LengthBefore(items, k) + Len(items[k].text) > 4000}

EndsWith(s, t) == Len(s) >= Len(t) /\ SubSeq(s, Len(s) - Len(t) + 1, Len(s)) = t

(* C31: for a list output the result keeps a 4000-character budget: when a *)
(* text block does not fit, the result ends with the prefix of that block  *)
(* that fills the remaining budget followed by the truncation marker, and  *)
(* the block content of the result never exceeds 4000 characters plus the  *)
(* marker (the line breaks between blocks and the image placeholders are   *)
(* not counted), whatever the mix of blocks.                               *)
C31_ListOutputBudget ==
    pc = "formatted" =>
        LET items == arg.tool_output.items
            over == Overflowing(items)
        IN  /\ Len(res) <= 4000 + Len("... (truncated)")
                           + Len(items) * (1 + Len("[Image output]"))
            /\ over # {} =>
                  LET k == CHOOSE i \in over : \A j \in over : i <= j
                      remaining == 4000 - LengthBefore(items, k)
                  IN  EndsWith(res,
                          (IF remaining > 0
                           THEN SubSeq(items[k].text, 1, remaining) ELSE "")
                          \o "... (truncated)")

(* The part of the budget rule that the code keeps: text and string blocks *)
(* are appended whole while the counted length stays within 4000, and the  *)
(* first one that does not fit ends the result, cut to the remaining       *)
(* budget and marked when more than 100 characters remain, left out        *)
(* otherwise.                                                              *)
C31_TextBlocksWithinBudget ==
    pc = "formatted" =>
        LET items == arg.tool_output.items
            over == Overflowing(items)
        IN  over # {} =>
               LET k == CHOOSE i \in over : \A j \in over : i <= j
                   remaining == 4000 - LengthBefore(items, k)
                   kept == format_tool_output("Bash", OutList(SubSeq(items, 1, k - 1)))
               IN  IF remaining > 100
                   THEN res = (IF k = 1 THEN "" ELSE kept \o "\n")
                              \o SubSeq(items[k].text, 1, remaining)
                              \o "... (truncated)"
                   ELSE res = kept

----------------------------------------------------------------------------
(* The latency and metadata of a tool span *)

ItemsFor(id) == {x \in ResultItems : ItemAt(x).tool_use_id = id}

(* The tool_result item that is read last among those with the call's id *)
LastItemFor(id) ==
    CHOOSE x \in ItemsFor(id) :
        \A y \in ItemsFor(id) : y[1] < x[1] \/ (y[1] = x[1] /\ y[2] <= x[2])

RecordFor(id) == arg.tool_results[LastItemFor(id)[1]]

CarriesDuration(tr) == tr.tur.kind = "map" /\ tr.tur.durationMs.k = "num"

(* C32: a tool span has a latency exactly when the tool result correlated  *)
(* with its call carries a durationMs, and then the latency is             *)
(* durationMs / 1000 and the metadata holds the duration; every call       *)
(* correlated with an item of one record gets that record's metadata.      *)
C32_LatencyIffDuration ==
    (pc = "compiled" /\ ~res.raised) =>
        \A k \in 1..Len(DistinctIds) :
            IF Unresolved(DistinctIds[k])
            THEN ~ToolSpansOf(res)[k].latency.has
            ELSE LET tr == RecordFor(DistinctIds[k])
                     span == ToolSpansOf(res)[k]
                 IN  /\ span.latency.has <=> CarriesDuration(tr)
                     /\ CarriesDuration(tr) =>
                           /\ span.latency.v = [num |-> tr.tur.durationMs.v,
                                                den |-> 1000]
                           /\ span.metadata.has
                           /\ span.metadata.v.duration_ms = tr.tur.durationMs

(* What holds: the span has the latency when the duration is not zero, and *)
(* the metadata holds the duration also when it is zero.                   *)
C32_LatencyIffNonZeroDuration ==
    (pc = "compiled" /\ ~res.raised) =>
        \A k \in 1..Len(DistinctIds) :
            IF Unresolved(DistinctIds[k])
            THEN ~ToolSpansOf(res)[k].latency.has
            ELSE LET tr == RecordFor(DistinctIds[k])
                     span == ToolSpansOf(res)[k]
                 IN  /\ span.latency.has <=>
                            (CarriesDuration(tr) /\ tr.tur.durationMs.v # 0)
                     /\ span.latency.has =>
                            span.latency.v = [num |-> tr.tur.durationMs.v,
                                              den |-> 1000]
                     /\ CarriesDuration(tr) =>
                           /\ span.metadata.has
                           /\ span.metadata.v.duration_ms = tr.tur.durationMs

----------------------------------------------------------------------------
(* A session in which lines of the log change after they were written: a   *)
(* record written in part is completed later.  arg remembers the last      *)
(* change: its line, whether the stored cursor covered the line then, and  *)
(* whether a run has happened since.                                       *)

MaxRewriteLog == 3

RewriteLines == {UserLine, AsstLine("m1", <<TextB("4")>>), InvalidLine}

InitRewrite ==
    /\ log = <<>>
    /\ store = Absent
    /\ sent = <<>>
    /\ last = NoRun
    /\ arg = [i |-> 0, covered |-> FALSE, ran |-> FALSE]
    /\ res = <<>>
    /\ pc = "session"

RewriteLine ==
    /\ pc = "session"
    /\ \E i \in 1..Len(log), l \in RewriteLines :
          /\ l # log[i]
          /\ log' = [log EXCEPT ![i] = l]
          /\ arg' = [i |-> i, covered |-> StoredLastLine(store) >= i,
                     ran |-> FALSE]
    /\ UNCHANGED <<store, sent, last, res, pc>>

AppendRewrite ==
    /\ pc = "session"
    /\ Len(log) < MaxRewriteLog
    /\ \E l \in RewriteLines : log' = Append(log, l)
    /\ UNCHANGED <<store, sent, last, arg, res, pc>>

RunRewritten ==
    /\ pc = "session"
    /\ Len(sent) < MaxSent
    /\ \E fails \in SUBSET (1..2) :
          \E r \in {process_transcript(log, store, fails)} :
              /\ store' = r.store
              /\ sent' = sent \o r.posts
              /\ last' = [end |-> r.end, posts |-> r.posts, before |-> store,
                          total |-> r.total, turns |-> r.turns]
    /\ arg' = [arg EXCEPT !.ran = TRUE]
    /\ UNCHANGED <<log, res, pc>>

NextRewrite == AppendRewrite \/ RewriteLine \/ RunRewritten

SpecRewrite == InitRewrite /\ [][NextRewrite]_vars

(* The messages the next run would read *)
NextRead == NewMessages(SplitLines(log), StoredLastLine(store))

----------------------------------------------------------------------------
(* Two sessions, one state file.  store is the whole file, a mapping from  *)
(* session id to the session's entry; log holds the transcript of each     *)
(* session; invocation 1 finds the transcript of session X to be the       *)
(* latest, invocation 2 that of session Y.  res lists the saves.           *)

MaxSessionLog == 2

Sessions == {"X", "Y"}

SessionOf(p) == IF p = 1 THEN "X" ELSE "Y"

InitSessions ==
    /\ log = [s \in Sessions |-> <<>>]
    /\ store = [s \in Sessions |-> Absent]
    /\ sent = <<>>
    /\ last = NoRun
    /\ arg = [p \in Procs |-> Idle]
    /\ res = <<>>
    /\ pc = "session"

AppendSession ==
    /\ pc = "session"
    /\ \E s \in Sessions, l \in {UserLine, AsstLine("m1", <<TextB("4")>>)} :
          /\ Len(log[s]) < MaxSessionLog
          /\ log' = [log EXCEPT ![s] = Append(@, l)]
    /\ UNCHANGED <<store, sent, last, arg, res, pc>>

(* main: state = load_state(), the whole file *)
LoadAll(p) ==
    /\ pc = "session"
    /\ arg[p].at = "idle"
    /\ arg' = [arg EXCEPT ![p] = [at |-> "loaded", loaded |-> store, out |-> NoRun]]
    /\ UNCHANGED <<log, store, sent, last, res, pc>>

(* process_transcript of the invocation's session up to save_state *)
ProcessSession(p) ==
    /\ pc = "session"
    /\ arg[p].at = "loaded"
    /\ \E r \in {process_transcript(log[SessionOf(p)],
                                    arg[p].loaded[SessionOf(p)], {})} :
          /\ sent' = sent \o r.posts
          /\ arg' = [arg EXCEPT ![p] =
                        IF r.end = "saved"
                        THEN [at |-> "processed", loaded |-> arg[p].loaded,
                              out |-> r]
                        ELSE Done]
    /\ UNCHANGED <<log, store, last, res, pc>>

(* state[session_id] = {...}; save_state(state): the file becomes the      *)
(* mapping this invocation loaded, with its own session's entry replaced   *)
WrittenFile(loaded, session_id, entry) == [loaded EXCEPT ![session_id] = entry]

SaveAll(p) ==
    /\ pc = "session"
    /\ arg[p].at = "processed"
    /\ store' = WrittenFile(arg[p].loaded, SessionOf(p), arg[p].out.store)
    /\ res' = Append(res, [p |-> p, session |-> SessionOf(p),
                           wrote |-> arg[p].out.store])
    /\ arg' = [arg EXCEPT ![p] = Done]
    /\ UNCHANGED <<log, sent, last, pc>>

NextSessions ==
    \/ AppendSession
    \/ \E p \in Procs : LoadAll(p)
    \/ \E p \in Procs : ProcessSession(p)
    \/ \E p \in Procs : SaveAll(p)

SpecSessions == InitSessions /\ [][NextSessions]_vars

(* C34: a run for one session changes only that session's entry, and no    *)
(* update is lost between sessions: the entry of every session holds what  *)
(* the invocation for that session saved, also when the invocations for    *)
(* two sessions overlap.                                                   *)
C34_NoLostUpdateBetweenSessions ==
    /\ \A k \in 1..Len(res) : store[res[k].session] = res[k].wrote
    /\ \A s \in Sessions :
          (\A k \in 1..Len(res) : res[k].session # s) => store[s] = Absent

(* What holds: the file is the mapping loaded by the invocation that saved *)
(* last, with that invocation's entry replaced.                            *)
C34_LastWriterWinsWholeFile ==
    res # <<>> =>
        /\ store[res[Len(res)].session] = res[Len(res)].wrote
        /\ \A s \in Sessions :
              s # res[Len(res)].session =>
                  \/ store[s] = Absent
                  \/ \E k \in 1..(Len(res) - 1) :
                        res[k].session = s /\ store[s] = res[k].wrote

-----------------------------------------------------------------------------
(* The Cursor hook (cursor/keywordsai_hook.py): one process per hook event. *)
(* store is the state file, a mapping from generation id to the entry of  *)
(* the generation; log lists the hook events handled so far and sent the   *)
(* spans posted.                                                           *)

MaxEvents == 4

GenIds == {"g1", "g2"}

ChildKinds == {"thinking", "shell", "file", "mcp"}

PromptOf(g) == "prompt of " \o g

NoPrompt == "[No prompt captured]"

get_root_span_id(generation_id) == generation_id \o "_root"

(* state.get(generation_id, {"child_count": 0}) *)
GenState(state, generation_id) ==
    IF state[generation_id].has THEN state[generation_id].v
    ELSE [user_prompt |-> Absent, child_count |-> 0]

handle_before_submit_prompt(state, generation_id, prompt) ==
    [state |-> [state EXCEPT ![generation_id] =
                   Some([user_prompt |-> Some(prompt), child_count |-> 0])],
     spans |-> <<>>]

(* Mutant: the child count is not increased *)
NextChildCountSame(gen_state) == gen_state.child_count

(* gen_state.get("child_count", 0) + 1 *)
NextChildCount(gen_state) == gen_state.child_count + 1

ChildSpan(kind, generation_id, child_idx) ==
    [span_unique_id |-> generation_id \o "_" \o kind \o "_" \o ToString(child_idx),
     span_parent_id |-> Some(get_root_span_id(generation_id)),
     kind |-> kind, generation_id |-> generation_id,
     input |-> "", child_count |-> child_idx]

(* handle_after_agent_thought, handle_after_shell_execution,               *)
(* handle_after_file_edit, handle_after_mcp_execution: update the child    *)
(* count, save, send the span                                              *)
handle_child(kind, state, generation_id) ==
    LET gen_state == GenState(state, generation_id)
        child_idx == NextChildCount(gen_state)
    IN  [state |-> [state EXCEPT ![generation_id] =
                       Some([gen_state EXCEPT !.child_count = child_idx])],
         spans |-> <<ChildSpan(kind, generation_id, child_idx)>>]

RootSpan(gen_state, generation_id) ==
    [span_unique_id |-> get_root_span_id(generation_id),
     span_parent_id |-> Absent,
     kind |-> "root", generation_id |-> generation_id,
     input |-> IF gen_state.user_prompt.has THEN gen_state.user_prompt.v
               ELSE NoPrompt,
     child_count |-> gen_state.child_count]

(* Mutant: cleaning up empties the whole state *)
RemoveAll(state, generation_id) == [g \in DOMAIN state |-> Absent]

(* del state[generation_id] *)
Remove(state, generation_id) == [state EXCEPT ![generation_id] = Absent]

handle_after_agent_response(state, generation_id) ==
    [state |-> IF state[generation_id].has THEN Remove(state, generation_id)
               ELSE state,
     spans |-> <<RootSpan(GenState(state, generation_id), generation_id)>>]

(* generation_id is "" when the hook input has none *)
handle_stop(state, generation_id) ==
    [state |-> IF generation_id # "" /\ generation_id \in DOMAIN state
                  /\ state[generation_id].has
               THEN Remove(state, generation_id)
               ELSE state,
     spans |-> <<>>]

(* main: handlers.get(hook_name) and the call of the handler *)
Handle(state, ev) ==
    IF ev.name = "beforeSubmitPrompt"
    THEN handle_before_submit_prompt(state, ev.generation_id, ev.prompt)
    ELSE IF ev.name = "afterAgentThought"
    THEN handle_child("thinking", state, ev.generation_id)
    ELSE IF ev.name = "afterShellExecution"
    THEN handle_child("shell", state, ev.generation_id)
    ELSE IF ev.name = "afterFileEdit"
    THEN handle_child("file", state, ev.generation_id)
    ELSE IF ev.name = "afterMCPExecution"
    THEN handle_child("mcp", state, ev.generation_id)
    ELSE IF ev.name = "afterAgentResponse"
    THEN handle_after_agent_response(state, ev.generation_id)
    ELSE IF ev.name = "stop"
    THEN handle_stop(state, ev.generation_id)
    ELSE [state |-> state, spans |-> <<>>]

HookNames ==
    {"beforeSubmitPrompt", "afterAgentThought", "afterShellExecution",
     "afterFileEdit", "afterMCPExecution", "afterAgentResponse", "stop",
     "afterTabFileEdit"}

HookEvents ==
    {[name |-> n, generation_id |-> g, prompt |-> PromptOf(g)] :
        n \in HookNames, g \in GenIds}
    \cup {[name |-> "stop", generation_id |-> "", prompt |-> ""]}

InitCursor ==
    /\ log = <<>>
    /\ store = [g \in GenIds |-> Absent]
    /\ sent = <<>>
    /\ last = NoRun
    /\ arg = <<>>
    /\ res = <<>>
    /\ pc = "cursor"

(* One hook process from load_state to exit, with no other process in      *)
(* between                                                                 *)
HookProcess ==
    /\ pc = "cursor"
    /\ Len(log) < MaxEvents
    /\ \E ev \in HookEvents :
          \E r \in {Handle(store, ev)} :
              /\ log' = Append(log, ev)
              /\ store' = r.state
              /\ sent' = sent \o r.spans
    /\ UNCHANGED <<last, arg, res, pc>>

NextCursor == HookProcess

SpecCursor == InitCursor /\ [][NextCursor]_vars

(* C35: whatever the order and number of the hook events of a generation,  *)
(* the child indices of its child spans increase strictly, so no two child *)
(* spans sent for the generation have the same span_unique_id.             *)
C35_ChildIndicesIncrease ==
    \A i, j \in 1..Len(sent) :
        (/\ i < j
         /\ sent[i].kind # "root"
         /\ sent[j].kind # "root"
         /\ sent[i].generation_id = sent[j].generation_id)
            => /\ sent[i].child_count < sent[j].child_count
               /\ sent[i].span_unique_id # sent[j].span_unique_id

(* The position in log of the n-th afterAgentResponse event *)
ResponseEvent(n) ==
    CHOOSE e \in 1..Len(log) :
        /\ log[e].name = "afterAgentResponse"
        /\ Cardinality({d \in 1..e : log[d].name = "afterAgentResponse"}) = n

RootsUpTo(k) == Cardinality({i \in 1..k : sent[i].kind = "root"})

(* The events of generation g before position e follow the hook protocol:  *)
(* one beforeSubmitPrompt, which comes first, then only child-span events  *)
InProtocol(g, e) ==
    LET own == {d \in 1..(e - 1) :
                   /\ log[d].generation_id = g
                   /\ log[d].name # "afterTabFileEdit"}
    IN  /\ own # {}
        /\ \A d \in own :
              IF \A c \in own : d <= c
              THEN log[d].name = "beforeSubmitPrompt"
              ELSE log[d].name \in {"afterAgentThought", "afterShellExecution",
                                    "afterFileEdit", "afterMCPExecution"}

Event == log'[Len(log')]

HookStep == pc = "cursor" /\ Len(log') = Len(log) + 1

(* C38: afterAgentResponse, and stop with a generation id, leave the state *)
(* without that generation's entry and with every other entry as it was;   *)
(* afterAgentResponse sends the root span only, stop sends no span (and    *)
(* changes nothing without a generation id), and an event with an unknown  *)
(* name changes neither the state nor the spans sent.                      *)
C38_CleanupRemovesOwnEntryOnly ==
    [][HookStep =>
          /\ Event.name = "afterAgentResponse" =>
                /\ store' = [store EXCEPT ![Event.generation_id] = Absent]
                /\ Len(sent') = Len(sent) + 1
                /\ SubSeq(sent', 1, Len(sent)) = sent
                /\ sent'[Len(sent')].kind = "root"
          /\ Event.name = "stop" =>
                /\ sent' = sent
                /\ store' = IF Event.generation_id = "" THEN store
                            ELSE [store EXCEPT ![Event.generation_id] = Absent]
          /\ Event.name = "afterTabFileEdit" =>
                /\ sent' = sent
                /\ store' = store]_vars

C38_Witness ==
    /\ Len(log) = 4
    /\ log[1].name = "beforeSubmitPrompt" /\ log[1].generation_id = "g1"
    /\ log[2].name = "beforeSubmitPrompt" /\ log[2].generation_id = "g2"
    /\ log[3].name = "afterAgentThought" /\ log[3].generation_id = "g2"
    /\ log[4].name = "stop" /\ log[4].generation_id = "g1"
    /\ store["g1"] = Absent
    /\ store["g2"] = Some([user_prompt |-> Some("prompt of g2"), child_count |-> 1])
    /\ Len(sent) = 1

----------------------------------------------------------------------------
(* Hook processes that overlap: processes 1 and 2 handle child-span events *)
(* of generation g1, process 3 the beforeSubmitPrompt of generation g2.    *)
(* Each loads the state file, then runs its handler, which updates the     *)
(* loaded mapping, writes it to the file and sends its span.               *)

CursorProcs == {1, 2, 3}

ChildEvents ==
    {[name |-> n, generation_id |-> "g1", prompt |-> ""] :
        n \in {"afterAgentThought", "afterShellExecution", "afterFileEdit",
               "afterMCPExecution"}}

InitCursorOverlap ==
    /\ log = <<>>
    /\ store \in {[g \in GenIds |-> Absent],
                  [g \in GenIds |->
                      IF g = "g1"
                      THEN Some([user_prompt |-> Some(PromptOf(g)), child_count |-> 0])
                      ELSE Absent]}
    /\ sent = <<>>
    /\ last = NoRun
    /\ \E e1 \in ChildEvents, e2 \in ChildEvents :
          arg = [p \in CursorProcs |->
                    [at |-> "start", loaded |-> store,
                     ev |-> IF p = 1 THEN e1
                            ELSE IF p = 2 THEN e2
                            ELSE [name |-> "beforeSubmitPrompt",
                                  generation_id |-> "g2",
                                  prompt |-> PromptOf("g2")]]]
    /\ res = <<>>
    /\ pc = "cursor"

(* main: state = load_state() *)
LoadCursor(p) ==
    /\ arg[p].at = "start"
    /\ arg' = [arg EXCEPT ![p].at = "loaded", ![p].loaded = store]
    /\ UNCHANGED <<log, store, sent, last, res, pc>>

(* The handler: save_state(state) writes the mapping this process loaded,  *)
(* as the handler changed it                                               *)
HandleCursor(p) ==
    /\ arg[p].at = "loaded"
    /\ \E r \in {Handle(arg[p].loaded, arg[p].ev)} :
          /\ store' = r.state
          /\ sent' = sent \o r.spans
    /\ log' = Append(log, arg[p].ev)
    /\ arg' = [arg EXCEPT ![p].at = "done"]
    /\ UNCHANGED <<last, res, pc>>

NextCursorOverlap ==
    \/ \E p \in CursorProcs : LoadCursor(p)
    \/ \E p \in CursorProcs : HandleCursor(p)

SpecCursorOverlap == InitCursorOverlap /\ [][NextCursorOverlap]_vars

AllDone == \A p \in CursorProcs : arg[p].at = "done"

(* C37: when the child-span processes of one generation overlap, no        *)
(* increment is lost: after the two processes the stored child_count is 2  *)
(* and the two spans have different child indices, and the entry that      *)
(* another generation's process wrote meanwhile is kept.                   *)
C37_NoLostIncrement ==
    AllDone =>
        /\ store["g1"].has
        /\ store["g1"].v.child_count = 2
        /\ \A i, j \in 1..Len(sent) :
              i # j => sent[i].child_count # sent[j].child_count
        /\ store["g2"] = Some([user_prompt |-> Some(PromptOf("g2")),
                               child_count |-> 0])

(* What holds: the file is what the process that saved last made of the    *)
(* mapping it had loaded.                                                  *)
C37_LastWriterWinsWholeFile ==
    \A p \in CursorProcs :
        (arg[p].at = "done" /\ log[Len(log)] = arg[p].ev
             /\ \A q \in CursorProcs \ {p} : arg[q].ev # arg[p].ev)
            => store = Handle(arg[p].loaded, arg[p].ev).state

====
